---- MODULE Spec2Model ----
(***************************************************************************)
(* Document Extraction Engine of bl-transformer: the invoice page          *)
(* accumulation (invoice/parser.py, invoice/models.py), the two-stage      *)
(* invoice line matcher (invoice/patterns.py) and the packing-list         *)
(* grouping pass (packing_list/parser.py).                                 *)
(*                                                                         *)
(* Python strings are sequences of one-character strings, so that the      *)
(* regular expressions are matched character by character.  An unset       *)
(* value (Python None) is the value None below.  A Python dict is a        *)
(* sequence of [k, v] entries in insertion order with distinct keys.       *)
(***************************************************************************)
EXTENDS Integers, Sequences, FiniteSets, TLC

\* ------------------------------------------------------------------------
\* Python values

None == <<"<None>">>

Digit == {"0", "1", "2", "3", "4", "5", "6", "7", "8", "9"}

Upper == {"A", "B", "C", "D", "E", "F", "G", "H", "I", "J", "K", "L", "M",
          "N", "O", "P", "Q", "R", "S", "T", "U", "V", "W", "X", "Y", "Z"}

\* the class \s
Space == {" ", "\n", "\t"}

\* the class [\d,\.]
NumChar == Digit \cup {",", "."}

\* the class [\d,]
QtyChar == Digit \cup {","}

\* truth value of an optional string: None and "" are falsy
Truthy(s) == s # None /\ s # <<>>

Range(f) == {f[i] : i \in DOMAIN f}

\* F applied to the value of x: x is evaluated once, whatever F does with it
Bind(F(_), x) == CHOOSE r \in {F(v) : v \in {x}} : TRUE

\* the last position q >= p - 1 with s[p..q] all in class C
RECURSIVE RunEnd(_, _, _)
RunEnd(s, p, C) ==
    IF p <= Len(s) /\ s[p] \in C THEN RunEnd(s, p + 1, C) ELSE p - 1

\* the last position q >= p - 1 with s[p..q] all outside class C
RECURSIVE RunEndNot(_, _, _)
RunEndNot(s, p, C) ==
    IF p <= Len(s) /\ s[p] \notin C THEN RunEndNot(s, p + 1, C) ELSE p - 1

\* s[p] exists and is in class C
At(s, p, C) == p \in 1..Len(s) /\ s[p] \in C

\* s[a..b] is not empty and all in class C
AllIn(s, a, b, C) == a <= b /\ \A k \in a..b : s[k] \in C

\* the literal lit occurs in s at position p
LitAt(s, p, lit) ==
    /\ p >= 1
    /\ p + Len(lit) - 1 <= Len(s)
    /\ \A k \in 1..Len(lit) : s[p + k - 1] = lit[k]

\* Python: lit in s
Contains(s, lit) ==
    \/ lit = <<>>
    \/ \E p \in 1..Len(s) : s[p] = lit[1] /\ LitAt(s, p, lit)

\* Python: s.strip()
strip(str) ==
    Bind(LAMBDA s :
           Bind(LAMBDA keep :
                  IF keep = {} THEN <<>>
                  ELSE SubSeq(s, CHOOSE p \in keep : \A q \in keep : p <= q,
                                 CHOOSE p \in keep : \A q \in keep : q <= p),
                {p \in 1..Len(s) : s[p] \notin Space}),
         str)

\* Python: s.split('\n'): the pieces of s from position a on
RECURSIVE SplitFrom(_, _)
SplitFrom(s, a) ==
    Bind(LAMBDA e :
           IF e = Len(s) THEN <<SubSeq(s, a, e)>>
           ELSE <<SubSeq(s, a, e)>> \o SplitFrom(s, e + 2),
         RunEndNot(s, a, {"\n"}))

split(str) == Bind(LAMBDA s : SplitFrom(s, 1), str)

\* Python: s.replace(',', '')
remove_commas(str) ==
    Bind(LAMBDA s : SelectSeq(s, LAMBDA c : c # ","), str)

\* the maximal runs of non-\s characters of s from position p on, in order,
\* each as <<first, last>>
RECURSIVE TokensFrom(_, _)
TokensFrom(s, p) ==
    Bind(LAMBDA a :
           IF a > Len(s) THEN <<>>
           ELSE Bind(LAMBDA e : <<<<a, e>>>> \o TokensFrom(s, e + 1),
                     RunEndNot(s, a, Space)),
         RunEnd(s, p, Space) + 1)

\* Python dict: entries in insertion order, keys distinct
DictKeys(d) == {d[i].k : i \in DOMAIN d}

DictGet(d, key) == (CHOOSE e \in Range(d) : e.k = key).v

\* d[key] = val: an existing key keeps its place, a new key goes last
DictSet(dict, key, val) ==
    Bind(LAMBDA d :
           IF key \in DictKeys(d)
           THEN [i \in DOMAIN d |->
                    IF d[i].k = key THEN [k |-> key, v |-> val] ELSE d[i]]
           ELSE Append(d, [k |-> key, v |-> val]),
         dict)

DictValues(d) == [i \in DOMAIN d |-> d[i].v]

\* ------------------------------------------------------------------------
\* invoice/patterns.py

EanLen == 13

\* a failed search or match
NoMatch == [matched |-> FALSE]

\* r'^\d{13}' with match(): 13 digits at the start of the string
ean_line(s) == Len(s) >= EanLen /\ \A k \in 1..EanLen : s[k] \in Digit

\* "<literal>(\d+)" with search(): the leftmost occurrence of the literal
\* followed by a digit; group 1 is the whole run of digits
DigitsAfter(str, lit) ==
    Bind(LAMBDA s :
           Bind(LAMBDA hits :
                  IF hits = {} THEN NoMatch
                  ELSE Bind(LAMBDA a : [matched |-> TRUE,
                                        g1 |-> SubSeq(s, a, RunEnd(s, a, Digit))],
                            (CHOOSE q \in hits : \A r \in hits : q <= r) + Len(lit)),
                {p \in 1..Len(s) :
                    s[p] = lit[1] /\ LitAt(s, p, lit) /\ At(s, p + Len(lit), Digit)}),
         str)

\* r"Shipment Number: (\d+)"
shipment_number(s) ==
    DigitsAfter(s, <<"S", "h", "i", "p", "m", "e", "n", "t", " ",
                     "N", "u", "m", "b", "e", "r", ":", " ">>)

\* r"TOTAL QUANTITY (\d+)"
total_quantity(s) ==
    DigitsAfter(s, <<"T", "O", "T", "A", "L", " ",
                     "Q", "U", "A", "N", "T", "I", "T", "Y", " ">>)

terms_of_sale ==
    <<"G", "E", "N", "E", "R", "A", "L", " ", "T", "E", "R", "M", "S", " ",
      "O", "F", " ", "S", "A", "L", "E">>

\* r'^(\d{13})\s+(.+?)\s+([\d,\.]+)\s+G' with MULTILINE and search().
\* From a line start p: 13 digits, a run of \s, the description s[i..j]
\* (no newline in it), a run of \s, the weight s[k..m] (a whole run of
\* [\d,\.]), a run of \s and a G.  What follows the description is
\* determined by j, because each class is followed by a class disjoint from
\* it.  The backtracking order is: leftmost p, then the longest first \s+
\* (largest i), then the shortest description (smallest j).
Step1Tail(s, j) ==
    Bind(LAMBDA k :
      Bind(LAMBDA m :
        Bind(LAMBDA n :
               [ok |-> /\ At(s, j + 1, Space)
                       /\ At(s, k, NumChar)
                       /\ At(s, m + 1, Space)
                       /\ At(s, n, {"G"}),
                k |-> k, m |-> m],
             RunEnd(s, m + 1, Space) + 1),
        RunEnd(s, k, NumChar)),
      RunEnd(s, j + 1, Space) + 1)

\* the candidate matches [p, i, j] from the line start p
Step1At(s, p) ==
    IF ~ (/\ p + EanLen <= Len(s)
          /\ \A d \in p..(p + EanLen - 1) : s[d] \in Digit
          /\ s[p + EanLen] \in Space)
    THEN {}
    ELSE Bind(LAMBDA w :
                {[p |-> p, i |-> ij[1], j |-> ij[2]] :
                   ij \in {x \in ((p + EanLen + 1)..(w + 1)) \X ((p + EanLen + 1)..Len(s)) :
                             /\ x[1] <= x[2]
                             /\ At(s, x[2] + 1, Space)
                             /\ \A d \in x[1]..x[2] : s[d] # "\n"
                             /\ Step1Tail(s, x[2]).ok}},
              RunEnd(s, p + EanLen, Space))

\* c comes before d in the order the matcher tries the candidates
Step1Before(c, d) ==
    \/ c.p < d.p
    \/ c.p = d.p /\ c.i > d.i
    \/ c.p = d.p /\ c.i = d.i /\ c.j <= d.j

item_step1(str) ==
    Bind(LAMBDA s :
      Bind(LAMBDA cands :
             IF cands = {} THEN NoMatch
             ELSE Bind(LAMBDA c :
                    Bind(LAMBDA t :
                           [matched |-> TRUE,
                            g1 |-> SubSeq(s, c.p, c.p + EanLen - 1),
                            g2 |-> SubSeq(s, c.i, c.j),
                            g3 |-> SubSeq(s, t.k, t.m)],
                         Step1Tail(s, c.j)),
                    CHOOSE c \in cands : \A d \in cands : Step1Before(c, d)),
           UNION {Step1At(s, p) : p \in {q \in 1..Len(s) : q = 1 \/ s[q - 1] = "\n"}}),
      str)

\* r'G\s+(\d+[\d,]*)\s+([\d,\.]+)\s+([\d,\.]+)\s+(\d+)\s+([A-Z]{2})\s+(\S+)$'
\* with search().  Each group is preceded and followed by \s or the end, so
\* it is a whole run of non-\s characters: the six groups are the last six
\* such runs of the string, the run before them ends with the G, and $ is
\* the end of the string or the place before a final newline.
Step2Of(s, T) ==
    LET n == Len(T)
    IN  IF /\ n >= 7
           /\ s[T[n - 6][2]] = "G"
           /\ At(s, T[n - 5][1], Digit)
           /\ AllIn(s, T[n - 5][1], T[n - 5][2], QtyChar)
           /\ AllIn(s, T[n - 4][1], T[n - 4][2], NumChar)
           /\ AllIn(s, T[n - 3][1], T[n - 3][2], NumChar)
           /\ AllIn(s, T[n - 2][1], T[n - 2][2], Digit)
           /\ T[n - 1][2] = T[n - 1][1] + 1
           /\ AllIn(s, T[n - 1][1], T[n - 1][2], Upper)
           /\ (T[n][2] = Len(s) \/ (T[n][2] = Len(s) - 1 /\ s[Len(s)] = "\n"))
        THEN [matched |-> TRUE,
              g1 |-> SubSeq(s, T[n - 5][1], T[n - 5][2]),
              g2 |-> SubSeq(s, T[n - 4][1], T[n - 4][2]),
              g3 |-> SubSeq(s, T[n - 3][1], T[n - 3][2]),
              g4 |-> SubSeq(s, T[n - 2][1], T[n - 2][2]),
              g5 |-> SubSeq(s, T[n - 1][1], T[n - 1][2]),
              g6 |-> SubSeq(s, T[n][1], T[n][2])]
        ELSE NoMatch

item_step2(str) ==
    Bind(LAMBDA s : Bind(LAMBDA T : Step2Of(s, T), TokensFrom(s, 1)), str)

\* ------------------------------------------------------------------------
\* invoice/models.py

\* InvoiceData.__init__
InvoiceData ==
    [edi_number |-> None, delivery_number |-> None, invoice_number |-> None,
     invoice_date |-> None, shipment_number |-> None, total_quantity |-> None,
     items |-> <<>>]

\* InvoiceData.append_items: self.items[ean] = item, in the order of items
RECURSIVE DictUpdate(_, _)
DictUpdate(d, items) ==
    IF items = <<>> THEN d
    ELSE Bind(LAMBDA d2 : DictUpdate(d2, Tail(items)),
              DictSet(d, Head(items).k, Head(items).v))

append_items_keep_first(self, items) ==
    [self EXCEPT !.items =
        DictUpdate(self.items,
                   SelectSeq(items, LAMBDA e : e.k \notin DictKeys(self.items)))]

append_items(self, items) ==
    [self EXCEPT !.items = DictUpdate(self.items, items)]

\* InvoiceData.set_metadata
set_metadata_overwrite_shipment(self, metadata) ==
    [self EXCEPT
        !.edi_number = metadata.edi_number,
        !.delivery_number = metadata.delivery_number,
        !.invoice_number = metadata.invoice_number,
        !.invoice_date = metadata.invoice_date,
        !.shipment_number = metadata.shipment_number,
        !.total_quantity = metadata.total_quantity]

set_metadata_keep_number(self, metadata) ==
    [self EXCEPT
        !.edi_number = metadata.edi_number,
        !.delivery_number = metadata.delivery_number,
        !.invoice_number = IF self.invoice_number = None
                           THEN metadata.invoice_number ELSE @,
        !.invoice_date = metadata.invoice_date,
        !.shipment_number = IF self.shipment_number = None
                            THEN metadata.shipment_number ELSE @,
        !.total_quantity = IF self.total_quantity = None
                           THEN metadata.total_quantity ELSE @]

set_metadata(self, metadata) ==
    [self EXCEPT
        !.edi_number = metadata.edi_number,
        !.delivery_number = metadata.delivery_number,
        !.invoice_number = metadata.invoice_number,
        !.invoice_date = metadata.invoice_date,
        !.shipment_number = IF self.shipment_number = None
                            THEN metadata.shipment_number ELSE @,
        !.total_quantity = IF self.total_quantity = None
                           THEN metadata.total_quantity ELSE @]

\* ------------------------------------------------------------------------
\* invoice/parser.py

\* _is_terms_of_sale_page
_is_terms_of_sale_page(page_text) == Contains(page_text, terms_of_sale)

\* page_tables[t][r][c] with Python's 0-based indices; Failed stands for
\* the IndexError of an index out of range (the tables of a page are lists
\* of rows, the rows lists of cells, so no subscript raises TypeError)
Failed == <<"<raised>">>

Cell(page_tables, t, r, c) ==
    IF /\ (t + 1) \in DOMAIN page_tables
       /\ (r + 1) \in DOMAIN page_tables[t + 1]
       /\ (c + 1) \in DOMAIN page_tables[t + 1][r + 1]
    THEN page_tables[t + 1][r + 1][c + 1]
    ELSE Failed

\* the fields read before the failing subscript are kept
_extract_metadata_partial(page_tables, page_text) ==
    LET edi      == Cell(page_tables, 0, 2, 1)
        delivery == Cell(page_tables, 1, 3, 1)
        number   == Cell(page_tables, 2, 0, 1)
        date     == Cell(page_tables, 2, 0, 3)
        enough == Len(page_tables) >= 3
        shipment_match == shipment_number(page_text)
        quantity_match == total_quantity(page_text)
    IN  [edi_number      |-> IF enough /\ edi # Failed THEN edi ELSE None,
         delivery_number |-> IF enough /\ Failed \notin {edi, delivery}
                             THEN delivery ELSE None,
         invoice_number  |-> IF enough /\ Failed \notin {edi, delivery, number}
                             THEN number ELSE None,
         invoice_date    |-> IF enough /\ Failed \notin {edi, delivery, number, date}
                             THEN date ELSE None,
         shipment_number |-> IF shipment_match.matched THEN shipment_match.g1 ELSE None,
         total_quantity  |-> IF quantity_match.matched THEN quantity_match.g1 ELSE None]

\* _extract_metadata
_extract_metadata(page_tables, page_text) ==
    LET edi      == Cell(page_tables, 0, 2, 1)
        delivery == Cell(page_tables, 1, 3, 1)
        number   == Cell(page_tables, 2, 0, 1)
        date     == Cell(page_tables, 2, 0, 3)
        tables_ok == /\ Len(page_tables) >= 3
                     /\ Failed \notin {edi, delivery, number, date}
        shipment_match == shipment_number(page_text)
        quantity_match == total_quantity(page_text)
    IN  [edi_number      |-> IF tables_ok THEN edi ELSE None,
         delivery_number |-> IF tables_ok THEN delivery ELSE None,
         invoice_number  |-> IF tables_ok THEN number ELSE None,
         invoice_date    |-> IF tables_ok THEN date ELSE None,
         shipment_number |-> IF shipment_match.matched THEN shipment_match.g1 ELSE None,
         total_quantity  |-> IF quantity_match.matched THEN quantity_match.g1 ELSE None]

\* _parse_item_line: NoItem (Python None), or the InvoiceItem built from both
\* matches
NoItem == [absent |-> TRUE]

InvoiceItemOf(match1, match2) ==
    [ean_number |-> match1.g1, description |-> strip(match1.g2),
     quantity |-> match2.g1, unit_price |-> match2.g2,
     total_price_usd |-> match2.g3, country |-> match2.g5,
     product_code |-> match2.g6]

_parse_item_line_step1_only(line) ==
    Bind(LAMBDA match1 :
           IF ~ match1.matched THEN NoItem
           ELSE Bind(LAMBDA match2 :
                       IF ~ match2.matched
                       THEN [ean_number |-> match1.g1,
                             description |-> strip(match1.g2),
                             quantity |-> None, unit_price |-> None,
                             total_price_usd |-> None,
                             country |-> None, product_code |-> None]
                       ELSE InvoiceItemOf(match1, match2),
                     item_step2(line)),
         item_step1(line))

_parse_item_line(line) ==
    Bind(LAMBDA match1 :
           IF ~ match1.matched THEN NoItem
           ELSE Bind(LAMBDA match2 :
                       IF ~ match2.matched THEN NoItem
                       ELSE InvoiceItemOf(match1, match2),
                     item_step2(line)),
         item_step1(line))

\* _extract_items: the dict of the page's items keyed by EAN
RECURSIVE ItemsOfLines(_, _, _)
ItemsOfLines(items, potential_lines, n) ==
    IF n > Len(potential_lines) THEN items
    ELSE Bind(LAMBDA item :
                ItemsOfLines(IF item # NoItem
                             THEN DictSet(items, item.ean_number, item)
                             ELSE items,
                             potential_lines, n + 1),
              _parse_item_line(potential_lines[n]))

\* the lines that start with 13 digits, stripped
PotentialLines(page_text) ==
    Bind(LAMBDA lines :
           SelectSeq([i \in DOMAIN lines |-> strip(lines[i])], ean_line),
         split(page_text))

_extract_items_last_line(page_tables, page_text) ==
    IF Len(page_tables) < 4 THEN <<>>
    ELSE Bind(LAMBDA potential_lines :
                IF potential_lines = <<>> THEN <<>>
                ELSE ItemsOfLines(<<>>, potential_lines, Len(potential_lines)),
              PotentialLines(page_text))

_extract_items(page_tables, page_text) ==
    IF Len(page_tables) < 4 THEN <<>>
    ELSE Bind(LAMBDA potential_lines : ItemsOfLines(<<>>, potential_lines, 1),
              PotentialLines(page_text))

\* What parse_pdf reads from one page: page_text = page.extract_text(), the
\* marker test, and the metadata and items of the page.  The extraction is a
\* pure function of the page, tabulated once per page in PageScan.
Scan(page) ==
    [has_text |-> Truthy(page.text),
     is_terms |-> Truthy(page.text) /\ _is_terms_of_sale_page(page.text),
     metadata |-> _extract_metadata(page.tables, page.text),
     items    |-> _extract_items(page.tables, page.text)]

\* the step of parse_pdf's loop for one page, on the in-progress record and
\* the output list: st = [invoice, invoice_data], page = Scan of the page
parse_page_no_reset(st, page) ==
    IF ~ page.has_text THEN st
    ELSE IF page.is_terms
    THEN [invoice |-> st.invoice,
          invoice_data |-> IF Truthy(st.invoice.invoice_number)
                           THEN Append(st.invoice_data, st.invoice)
                           ELSE st.invoice_data]
    ELSE [invoice |-> append_items(set_metadata(st.invoice, page.metadata), page.items),
          invoice_data |-> st.invoice_data]

parse_page_emit_always(st, page) ==
    IF ~ page.has_text THEN st
    ELSE IF page.is_terms
    THEN [invoice |-> InvoiceData,
          invoice_data |-> Append(st.invoice_data, st.invoice)]
    ELSE [invoice |-> append_items(set_metadata(st.invoice, page.metadata), page.items),
          invoice_data |-> st.invoice_data]

parse_page_marker_contributes(st, page) ==
    IF ~ page.has_text THEN st
    ELSE IF page.is_terms
    THEN [invoice |-> append_items(set_metadata(InvoiceData, page.metadata), page.items),
          invoice_data |-> IF Truthy(st.invoice.invoice_number)
                           THEN Append(st.invoice_data, st.invoice)
                           ELSE st.invoice_data]
    ELSE [invoice |-> append_items(set_metadata(st.invoice, page.metadata), page.items),
          invoice_data |-> st.invoice_data]

parse_page_blank_closes(st, page) ==
    IF ~ page.has_text \/ page.is_terms
    THEN [invoice |-> InvoiceData,
          invoice_data |-> IF Truthy(st.invoice.invoice_number)
                           THEN Append(st.invoice_data, st.invoice)
                           ELSE st.invoice_data]
    ELSE [invoice |-> append_items(set_metadata(st.invoice, page.metadata), page.items),
          invoice_data |-> st.invoice_data]

parse_page_emit_per_page(st, page) ==
    IF ~ page.has_text THEN st
    ELSE IF page.is_terms
    THEN [invoice |-> InvoiceData,
          invoice_data |-> IF Truthy(st.invoice.invoice_number)
                           THEN Append(st.invoice_data, st.invoice)
                           ELSE st.invoice_data]
    ELSE Bind(LAMBDA invoice_now :
                [invoice |-> invoice_now,
                 invoice_data |-> IF Truthy(invoice_now.invoice_number)
                                  THEN Append(st.invoice_data, invoice_now)
                                  ELSE st.invoice_data],
              append_items(set_metadata(st.invoice, page.metadata), page.items))

parse_page(st, page) ==
    IF ~ page.has_text THEN st
    ELSE IF page.is_terms
    THEN [invoice |-> InvoiceData,
          invoice_data |-> IF Truthy(st.invoice.invoice_number)
                           THEN Append(st.invoice_data, st.invoice)
                           ELSE st.invoice_data]
    ELSE [invoice |-> append_items(set_metadata(st.invoice, page.metadata), page.items),
          invoice_data |-> st.invoice_data]

\* parse_pdf after the last page: the last invoice is added if it has data
end_of_input(st) ==
    IF Truthy(st.invoice.invoice_number)
    THEN Append(st.invoice_data, st.invoice)
    ELSE st.invoice_data

\* ------------------------------------------------------------------------
\* The pages a PDF supplies (page.extract_text(), page.extract_tables())

\* "3600542016742 SHAMPOO 250ML 250.00 G 1,008 2.50 2,520.00 3305 FR E1234500"
LineA1 ==
    <<"3", "6", "0", "0", "5", "4", "2", "0", "1", "6", "7", "4", "2", " ",
      "S", "H", "A", "M", "P", "O", "O", " ", "2", "5", "0", "M", "L", " ",
      "2", "5", "0", ".", "0", "0", " ", "G", " ", "1", ",", "0", "0", "8",
      " ", "2", ".", "5", "0", " ", "2", ",", "5", "2", "0", ".", "0", "0",
      " ", "3", "3", "0", "5", " ", "F", "R", " ", "E", "1", "2", "3", "4",
      "5", "0", "0">>

\* "3600542016742 SHAMPOO NEW 250.00 G 42 2.50 105.00 3305 DE E1234511"
LineA2 ==
    <<"3", "6", "0", "0", "5", "4", "2", "0", "1", "6", "7", "4", "2", " ",
      "S", "H", "A", "M", "P", "O", "O", " ", "N", "E", "W", " ", "2", "5",
      "0", ".", "0", "0", " ", "G", " ", "4", "2", " ", "2", ".", "5", "0",
      " ", "1", "0", "5", ".", "0", "0", " ", "3", "3", "0", "5", " ", "D",
      "E", " ", "E", "1", "2", "3", "4", "5", "1", "1">>

\* "3600523971503 SOAP 100 G 12 1.00 12.00 3401 KR S77"
LineB ==
    <<"3", "6", "0", "0", "5", "2", "3", "9", "7", "1", "5", "0", "3", " ",
      "S", "O", "A", "P", " ", "1", "0", "0", " ", "G", " ", "1", "2", " ",
      "1", ".", "0", "0", " ", "1", "2", ".", "0", "0", " ", "3", "4", "0",
      "1", " ", "K", "R", " ", "S", "7", "7">>

\* "3600531288899 CREAM 50.5 G 3 9.90 29.70 3304 IT C9"
LineC ==
    <<"3", "6", "0", "0", "5", "3", "1", "2", "8", "8", "8", "9", "9", " ",
      "C", "R", "E", "A", "M", " ", "5", "0", ".", "5", " ", "G", " ", "3",
      " ", "9", ".", "9", "0", " ", "2", "9", ".", "7", "0", " ", "3", "3",
      "0", "4", " ", "I", "T", " ", "C", "9">>

\* "3600523971503 SOAP 100 G 12 1.00 12.00 3401 kr"
LineS1 ==
    <<"3", "6", "0", "0", "5", "2", "3", "9", "7", "1", "5", "0", "3", " ",
      "S", "O", "A", "P", " ", "1", "0", "0", " ", "G", " ", "1", "2", " ",
      "1", ".", "0", "0", " ", "1", "2", ".", "0", "0", " ", "3", "4", "0",
      "1", " ", "k", "r">>

\* "EAN Description Weight Qty"
LineX ==
    <<"E", "A", "N", " ", "D", "e", "s", "c", "r", "i", "p", "t", "i", "o",
      "n", " ", "W", "e", "i", "g", "h", "t", " ", "Q", "t", "y">>

\* "Shipment Number: 7001"
LineShip7 ==
    <<"S", "h", "i", "p", "m", "e", "n", "t", " ", "N", "u", "m", "b", "e",
      "r", ":", " ", "7", "0", "0", "1">>

\* "Shipment Number: 8002"
LineShip8 ==
    <<"S", "h", "i", "p", "m", "e", "n", "t", " ", "N", "u", "m", "b", "e",
      "r", ":", " ", "8", "0", "0", "2">>

\* "Shipment Number: 9003"
LineShip9 ==
    <<"S", "h", "i", "p", "m", "e", "n", "t", " ", "N", "u", "m", "b", "e",
      "r", ":", " ", "9", "0", "0", "3">>

\* "TOTAL QUANTITY 1050"
LineTotal5 ==
    <<"T", "O", "T", "A", "L", " ", "Q", "U", "A", "N", "T", "I", "T", "Y",
      " ", "1", "0", "5", "0">>

\* "TOTAL QUANTITY 66"
LineTotal6 ==
    <<"T", "O", "T", "A", "L", " ", "Q", "U", "A", "N", "T", "I", "T", "Y",
      " ", "6", "6">>

\* "TOTAL QUANTITY 9"
LineTotal9 ==
    <<"T", "O", "T", "A", "L", " ", "Q", "U", "A", "N", "T", "I", "T", "Y",
      " ", "9">>

\* "Page 3 - GENERAL TERMS OF SALE"
LineTerms ==
    <<"P", "a", "g", "e", " ", "3", " ", "-", " ", "G", "E", "N", "E", "R",
      "A", "L", " ", "T", "E", "R", "M", "S", " ", "O", "F", " ", "S", "A",
      "L", "E">>

RECURSIVE JoinLines(_)
JoinLines(lines) ==
    IF Len(lines) = 0 THEN <<>>
    ELSE IF Len(lines) = 1 THEN lines[1]
    ELSE lines[1] \o <<"\n">> \o JoinLines(Tail(lines))

\* the three header tables the metadata is read from, and the item table
EdiTable(edi) ==
    <<<<None, None>>, <<None, None>>, <<<<"E", "D", "I">>, edi>>>>

DeliveryTable(delivery) ==
    <<<<None>>, <<None>>, <<None>>, <<<<"D", "N">>, delivery>>>>

InvoiceTable(number, date) ==
    <<<<<<"N", "o">>, number, <<"D", "t">>, date>>>>

\* the first row lacks the date cell
ShortInvoiceTable(number) ==
    <<<<<<"N", "o">>, number, <<"D", "t">>>>>>

ItemTable == <<<<<<"E", "A", "N">>, <<"Q", "t", "y">>>>>>

Date1 == <<"0", "5", ".", "1", "1", ".", "2", "0", "2", "4">>

Date2 == <<"0", "6", ".", "1", "1", ".", "2", "0", "2", "4">>

Tables3(edi, delivery, number, date) ==
    <<EdiTable(edi), DeliveryTable(delivery), InvoiceTable(number, date)>>

Tables4(edi, delivery, number, date) ==
    Tables3(edi, delivery, number, date) \o <<ItemTable>>

TablesShort(edi, delivery, number) ==
    <<EdiTable(edi), DeliveryTable(delivery), ShortInvoiceTable(number), ItemTable>>

PdfPages ==
    <<
      \* 1, 2: pages without text
      [text |-> None, tables |-> Tables4(<<"E", "0">>, <<"D", "0">>, <<"N", "0">>, Date1)],
      [text |-> <<>>, tables |-> <<>>],
      \* 3, 4: marker pages, the second with metadata and an item line of its own
      [text |-> LineTerms, tables |-> <<>>],
      [text |-> JoinLines(<<LineTerms, LineShip9, LineTotal9, LineC>>),
       tables |-> Tables4(<<"E", "9">>, <<"D", "9">>, <<"N", "9">>, Date2)],
      \* 5, 6: two pages of invoice N1 with different header values
      [text |-> JoinLines(<<LineShip7, LineTotal5, LineX, LineA1>>),
       tables |-> Tables4(<<"E", "1">>, <<"D", "1">>, <<"N", "1">>, Date1)],
      [text |-> JoinLines(<<LineShip8, LineTotal6, LineA2, LineB>>),
       tables |-> Tables4(<<"E", "2">>, <<"D", "2">>, <<"N", "1">>, Date2)],
      \* 7: invoice N2, one full line and one line that fails stage 2
      [text |-> JoinLines(<<LineX, LineC, LineS1>>),
       tables |-> Tables4(<<"E", "3">>, <<"D", "3">>, <<"N", "2">>, Date2)],
      \* 8: the same EAN on two lines of one page
      [text |-> JoinLines(<<LineA1, LineB, LineA2>>),
       tables |-> Tables4(<<"E", "1">>, <<"D", "1">>, <<"N", "2">>, Date1)],
      \* 9: four tables, but the date cell is missing
      [text |-> JoinLines(<<LineShip8, LineA2>>),
       tables |-> TablesShort(<<"E", "4">>, <<"D", "4">>, <<"N", "4">>)],
      \* 10: three tables: metadata, no items
      [text |-> JoinLines(<<LineTotal6, LineB>>),
       tables |-> Tables3(<<"E", "5">>, <<"D", "5">>, <<"N", "3">>, Date1)],
      \* 11: no tables
      [text |-> LineA1, tables |-> <<>>],
      \* 12: the invoice number cell is empty
      [text |-> JoinLines(<<LineShip7, LineB>>),
       tables |-> Tables4(<<"E", "6">>, None, <<>>, None)]
    >>

PageScan == <<Scan(PdfPages[1]), Scan(PdfPages[2]), Scan(PdfPages[3]),
              Scan(PdfPages[4]), Scan(PdfPages[5]), Scan(PdfPages[6]),
              Scan(PdfPages[7]), Scan(PdfPages[8]), Scan(PdfPages[9]),
              Scan(PdfPages[10]), Scan(PdfPages[11]), Scan(PdfPages[12])>>

\* ------------------------------------------------------------------------
\* The tables _extract_metadata is given: the four tables of a page, whole,
\* with tables missing at the end, with rows missing at the end of one of
\* the three header tables, and with cells missing at the end of one row
FullTables == Tables4(<<"E", "1">>, <<"D", "1">>, <<"N", "1">>, Date1)

MetaTables ==
    {SubSeq(FullTables, 1, k) : k \in 0..Len(FullTables)}
    \cup UNION {{[FullTables EXCEPT ![t] = SubSeq(FullTables[t], 1, r)] :
                    r \in 0..Len(FullTables[t])} : t \in 1..3}
    \cup UNION {UNION {{[FullTables EXCEPT ![t][r] = SubSeq(FullTables[t][r], 1, c)] :
                           c \in 0..Len(FullTables[t][r])} :
                      r \in DOMAIN FullTables[t]} : t \in 1..3}

\* the page texts: with and without a shipment number and a total quantity
MetaTexts ==
    {JoinLines(<<LineX, LineA1>>),
     JoinLines(<<LineShip7, LineX, LineA1>>),
     JoinLines(<<LineTotal5, LineX, LineA1>>),
     JoinLines(<<LineShip7, LineTotal5, LineX, LineA1>>)}

\* ------------------------------------------------------------------------
\* packing_list/models.py, packing_list/parser.py

DigitChars == <<"0", "1", "2", "3", "4", "5", "6", "7", "8", "9">>

DigitVal(c) == (CHOOSE n \in 1..10 : DigitChars[n] = c) - 1

\* Python: int(s) for a str: blanks around, an optional sign, digits with
\* single underscores between them; anything else raises ValueError
IntBody(t) ==
    IF t # <<>> /\ t[1] \in {"+", "-"} THEN SubSeq(t, 2, Len(t)) ELSE t

IntRaises(str) ==
    Bind(LAMBDA b :
           ~ (/\ b # <<>>
              /\ \A k \in 1..Len(b) : b[k] \in Digit \cup {"_"}
              /\ b[1] \in Digit /\ b[Len(b)] \in Digit
              /\ \A k \in 1..(Len(b) - 1) : ~ (b[k] = "_" /\ b[k + 1] = "_")),
         IntBody(strip(str)))

RECURSIVE NatOf(_, _)
NatOf(b, n) ==
    IF n = 0 THEN 0
    ELSE IF b[n] = "_" THEN NatOf(b, n - 1)
    ELSE NatOf(b, n - 1) * 10 + DigitVal(b[n])

int(str) ==
    Bind(LAMBDA t :
           Bind(LAMBDA b : IF t[1] = "-" THEN 0 - NatOf(b, Len(b)) ELSE NatOf(b, Len(b)),
                IntBody(t)),
         strip(str))

\* Python: str(n) for an int
RECURSIVE NatStr(_)
NatStr(n) ==
    IF n < 10 THEN <<DigitChars[n + 1]>>
    ELSE Bind(LAMBDA q : NatStr(q), n \div 10) \o <<DigitChars[(n % 10) + 1]>>

str(num) ==
    Bind(LAMBDA n : IF n < 0 THEN <<"-">> \o NatStr(0 - n) ELSE NatStr(n), num)

\* Python: f"{x}" for an optional str
Format(x) == IF x = None THEN <<"N", "o", "n", "e">> ELSE x

\* _create_item_from_match: a match carries the eleven groups g1..g11; the
\* page-level fields are unset until parse_pdf stamps them
_create_item_from_match_keep_commas(match) ==
    [edi_number |-> None, order_number |-> None, shipment_number |-> None,
     hs_code |-> match.g1, brand |-> match.g2, sku |-> match.g3,
     description |-> strip(match.g4),
     items_qty |-> match.g5,
     ean |-> match.g6, batch |-> match.g7,
     mfg_date |-> match.g8, exp_date |-> match.g9,
     coo |-> match.g10, dg |-> match.g11]

_create_item_from_match(match) ==
    [edi_number |-> None, order_number |-> None, shipment_number |-> None,
     hs_code |-> match.g1, brand |-> match.g2, sku |-> match.g3,
     description |-> strip(match.g4),
     items_qty |-> remove_commas(match.g5),
     ean |-> match.g6, batch |-> match.g7,
     mfg_date |-> match.g8, exp_date |-> match.g9,
     coo |-> match.g10, dg |-> match.g11]

\* key = f"{item.ean}_{item.batch}"
GroupKeyEanOnly(item) == Format(item.ean)

GroupKey(item) == Format(item.ean) \o <<"_">> \o Format(item.batch)

\* a quantity that does not convert counts as 0
SumIntoBadAsZero(kept, item) ==
    LET existing_qty   == IF Truthy(kept.items_qty) /\ ~ IntRaises(kept.items_qty)
                          THEN int(kept.items_qty) ELSE 0
        additional_qty == IF Truthy(item.items_qty) /\ ~ IntRaises(item.items_qty)
                          THEN int(item.items_qty) ELSE 0
    IN  [kept EXCEPT !.items_qty = str(existing_qty + additional_qty)]

\* the later duplicate replaces the kept item and takes the summed quantity
SumIntoLatest(kept, item) ==
    IF \/ (Truthy(kept.items_qty) /\ IntRaises(kept.items_qty))
       \/ (Truthy(item.items_qty) /\ IntRaises(item.items_qty))
    THEN kept
    ELSE LET existing_qty   == IF Truthy(kept.items_qty) THEN int(kept.items_qty) ELSE 0
             additional_qty == IF Truthy(item.items_qty) THEN int(item.items_qty) ELSE 0
         IN  [item EXCEPT !.items_qty = str(existing_qty + additional_qty)]

\* the else branch of the grouping loop: the kept item with the quantities
\* summed, or unchanged when int() raises ValueError
SumInto(kept, item) ==
    IF \/ (Truthy(kept.items_qty) /\ IntRaises(kept.items_qty))
       \/ (Truthy(item.items_qty) /\ IntRaises(item.items_qty))
    THEN kept
    ELSE LET existing_qty   == IF Truthy(kept.items_qty) THEN int(kept.items_qty) ELSE 0
             additional_qty == IF Truthy(item.items_qty) THEN int(item.items_qty) ELSE 0
         IN  [kept EXCEPT !.items_qty = str(existing_qty + additional_qty)]

\* one iteration of the grouping loop on the dict grouped
GroupStep(grouped, item) ==
    Bind(LAMBDA key :
           IF key \notin DictKeys(grouped)
           THEN DictSet(grouped, key, item)
           ELSE DictSet(grouped, key, SumInto(DictGet(grouped, key), item)),
         GroupKey(item))

\* the loop without its else: the first item of a group is summed into itself
GroupStepNoElse(grouped, item) ==
    Bind(LAMBDA key :
           Bind(LAMBDA g : DictSet(g, key, SumInto(DictGet(g, key), item)),
                IF key \notin DictKeys(grouped)
                THEN DictSet(grouped, key, item) ELSE grouped),
         GroupKey(item))

\* the loop keeping the first quantity instead of the sum
GroupStepNoSum(grouped, item) ==
    Bind(LAMBDA key :
           IF key \notin DictKeys(grouped)
           THEN DictSet(grouped, key, item)
           ELSE grouped,
         GroupKey(item))

\* the loop moving a merged group to the end of the dict
GroupStepReinsert(grouped, item) ==
    Bind(LAMBDA key :
           IF key \notin DictKeys(grouped)
           THEN DictSet(grouped, key, item)
           ELSE Append(SelectSeq(grouped, LAMBDA e : e.k # key),
                       [k |-> key, v |-> SumInto(DictGet(grouped, key), item)]),
         GroupKey(item))

RECURSIVE GroupLoop(_, _, _, _)
GroupLoop(Step(_, _), grouped, items, n) ==
    IF n > Len(items) THEN grouped
    ELSE Bind(LAMBDA g : GroupLoop(Step, g, items, n + 1), Step(grouped, items[n]))

_group_items_no_else(items) == DictValues(GroupLoop(GroupStepNoElse, <<>>, items, 1))

_group_items_no_sum(items) == DictValues(GroupLoop(GroupStepNoSum, <<>>, items, 1))

_group_items_reinsert(items) == DictValues(GroupLoop(GroupStepReinsert, <<>>, items, 1))

\* _group_items_by_ean_batch: result = list(grouped.values())
_group_items_by_ean_batch(items) == DictValues(GroupLoop(GroupStep, <<>>, items, 1))

\* ------------------------------------------------------------------------
\* The regex matches of packing-list lines handed to _create_item_from_match

Ean1 == <<"3", "6", "0", "0", "5", "4", "2", "0", "1", "6", "7", "4", "2">>

Ean2 == <<"3", "6", "0", "0", "5", "2", "3", "9", "7", "1", "5", "0", "3">>

Batch1 == <<"4", "8", "T", "1", "0", "1">>

Batch2 == <<"4", "8", "T", "2", "0", "2">>

\* a batch with the key's separator in it
Batch3 == <<"4", "8", "T", "_", "1", "0", "1">>

ItemMatch(sku, description, qty, ean, batch) ==
    [g1 |-> <<"3", "3", "0", "5">>, g2 |-> <<"L", "O", "R">>, g3 |-> sku,
     g4 |-> description, g5 |-> qty, g6 |-> ean, g7 |-> batch,
     g8 |-> <<"0", "1", "-", "0", "2", "-", "2", "0", "2", "4">>,
     g9 |-> <<"0", "1", "-", "0", "2", "-", "2", "0", "2", "7">>,
     g10 |-> <<"F", "R">>, g11 |-> <<"N">>]

ItemMatches ==
    {ItemMatch(<<"E", "1">>, <<"S", "H", "A", "M", "P", "O", "O">>,
               <<"1", ",", "0", "0", "8">>, Ean1, Batch1),
     ItemMatch(<<"E", "2">>, <<"S", "H", "A", "M", "P", "O", "O", " ", "X">>,
               <<"4", "2">>, Ean1, Batch1),
     ItemMatch(<<"E", "1">>, <<"S", "H", "A", "M", "P", "O", "O">>,
               <<"7">>, Ean1, Batch2),
     ItemMatch(<<"S", "7">>, <<"S", "O", "A", "P">>,
               <<"0", "0", "7">>, Ean2, Batch1),
     ItemMatch(<<"S", "7">>, <<"S", "O", "A", "P">>,
               <<",">>, Ean2, Batch1),
     ItemMatch(<<"S", "8">>, <<"S", "O", "A", "P", " ", "B">>,
               <<"1", "2", ",", "0", "0", "0">>, Ean2, Batch2),
     ItemMatch(<<"S", "8">>, <<"S", "O", "A", "P", " ", "B">>,
               <<"5">>, Ean2, Batch3)}

\* ------------------------------------------------------------------------
\* The lines handed to _extract_items

\* stage 1 fails: no weight and unit
\* "3600542016742 SHAMPOO 250ML"
LineNoG ==
    <<"3", "6", "0", "0", "5", "4", "2", "0", "1", "6", "7", "4", "2", " ",
      "S", "H", "A", "M", "P", "O", "O", " ", "2", "5", "0", "M", "L">>

\* stage 1 fails: the unit is KG; stage 2 matches
\* "3600523971503 SOAP 0.10 KG 12 1.00 12.00 3401 KR S77"
LineKG ==
    <<"3", "6", "0", "0", "5", "2", "3", "9", "7", "1", "5", "0", "3", " ",
      "S", "O", "A", "P", " ", "0", ".", "1", "0", " ", "K", "G", " ", "1",
      "2", " ", "1", ".", "0", "0", " ", "1", "2", ".", "0", "0", " ", "3",
      "4", "0", "1", " ", "K", "R", " ", "S", "7", "7">>

\* stage 1 fails: no description and weight; stage 2 matches
\* "3600523971503 G 12 1.00 12.00 3401 KR S77"
LineNoDesc ==
    <<"3", "6", "0", "0", "5", "2", "3", "9", "7", "1", "5", "0", "3", " ",
      "G", " ", "1", "2", " ", "1", ".", "0", "0", " ", "1", "2", ".", "0",
      "0", " ", "3", "4", "0", "1", " ", "K", "R", " ", "S", "7", "7">>

\* not a candidate: 12 digits
\* "360052397150 SOAP 100 G 12 1.00 12.00 3401 KR S77"
LineEan12 ==
    <<"3", "6", "0", "0", "5", "2", "3", "9", "7", "1", "5", "0", " ", "S",
      "O", "A", "P", " ", "1", "0", "0", " ", "G", " ", "1", "2", " ", "1",
      ".", "0", "0", " ", "1", "2", ".", "0", "0", " ", "3", "4", "0", "1",
      " ", "K", "R", " ", "S", "7", "7">>

\* a candidate, stage 1 fails: 14 digits
\* "36005239715031 SOAP 100 G 12 1.00 12.00 3401 KR S77"
LineEan14 ==
    <<"3", "6", "0", "0", "5", "2", "3", "9", "7", "1", "5", "0", "3", "1",
      " ", "S", "O", "A", "P", " ", "1", "0", "0", " ", "G", " ", "1", "2",
      " ", "1", ".", "0", "0", " ", "1", "2", ".", "0", "0", " ", "3", "4",
      "0", "1", " ", "K", "R", " ", "S", "7", "7">>

\* stage 2 fails: no product code
\* "3600531288899 CREAM 50.5 G 3 9.90 29.70 3304 IT"
LineNoCode ==
    <<"3", "6", "0", "0", "5", "3", "1", "2", "8", "8", "8", "9", "9", " ",
      "C", "R", "E", "A", "M", " ", "5", "0", ".", "5", " ", "G", " ", "3",
      " ", "9", ".", "9", "0", " ", "2", "9", ".", "7", "0", " ", "3", "3",
      "0", "4", " ", "I", "T">>

\* stage 2 fails: the quantity is no number
\* "3600531288899 CREAM 50.5 G x3 9.90 29.70 3304 IT C9"
LineBadQty ==
    <<"3", "6", "0", "0", "5", "3", "1", "2", "8", "8", "8", "9", "9", " ",
      "C", "R", "E", "A", "M", " ", "5", "0", ".", "5", " ", "G", " ", "x",
      "3", " ", "9", ".", "9", "0", " ", "2", "9", ".", "7", "0", " ", "3",
      "3", "0", "4", " ", "I", "T", " ", "C", "9">>

\* a full line with blanks around it
\* "  3600531288899 CREAM 50.5 G 3 9.90 29.70 3304 IT C9 "
LineIndent ==
    <<" ", " ", "3", "6", "0", "0", "5", "3", "1", "2", "8", "8", "8", "9",
      "9", " ", "C", "R", "E", "A", "M", " ", "5", "0", ".", "5", " ", "G",
      " ", "3", " ", "9", ".", "9", "0", " ", "2", "9", ".", "7", "0", " ",
      "3", "3", "0", "4", " ", "I", "T", " ", "C", "9", " ">>

\* not a candidate: the EAN is not at the start
\* "No 3600531288899 CREAM 50.5 G 3 9.90 29.70 3304 IT C9"
LineMid ==
    <<"N", "o", " ", "3", "6", "0", "0", "5", "3", "1", "2", "8", "8", "8",
      "9", "9", " ", "C", "R", "E", "A", "M", " ", "5", "0", ".", "5", " ",
      "G", " ", "3", " ", "9", ".", "9", "0", " ", "2", "9", ".", "7", "0",
      " ", "3", "3", "0", "4", " ", "I", "T", " ", "C", "9">>

ItemLines ==
    {LineA1, LineA2, LineB, LineS1, LineX, LineNoG, LineKG, LineNoDesc,
     LineEan12, LineEan14, LineNoCode, LineBadQty, LineIndent, LineMid}

RECURSIVE SeqsUpTo(_, _)
SeqsUpTo(S, n) ==
    IF n = 0 THEN {<<>>}
    ELSE LET shorter == SeqsUpTo(S, n - 1)
         IN  shorter \cup {Append(q, x) : q \in {r \in shorter : Len(r) = n - 1}, x \in S}

\* ------------------------------------------------------------------------
\* Python re: the patterns of packing_list/patterns.py are sequences of
\* repeated character classes, matched by backtracking

Lower == {"a", "b", "c", "d", "e", "f", "g", "h", "i", "j", "k", "l", "m",
          "n", "o", "p", "q", "r", "s", "t", "u", "v", "w", "x", "y", "z"}

LowerChars == <<"a", "b", "c", "d", "e", "f", "g", "h", "i", "j", "k", "l", "m",
                "n", "o", "p", "q", "r", "s", "t", "u", "v", "w", "x", "y", "z">>

UpperChars == <<"A", "B", "C", "D", "E", "F", "G", "H", "I", "J", "K", "L", "M",
                "N", "O", "P", "Q", "R", "S", "T", "U", "V", "W", "X", "Y", "Z">>

\* Python: c.lower(), c.upper() of one character
lower_char(c) ==
    IF c \in Upper THEN LowerChars[CHOOSE n \in 1..26 : UpperChars[n] = c] ELSE c

upper_char(c) ==
    IF c \in Lower THEN UpperChars[CHOOSE n \in 1..26 : LowerChars[n] = c] ELSE c

\* Python: s.lower(), s.upper()
lower(string) == Bind(LAMBDA s : [i \in DOMAIN s |-> lower_char(s[i])] \o <<>>, string)

upper(string) == Bind(LAMBDA s : [i \in DOMAIN s |-> upper_char(s[i])] \o <<>>, string)

\* the class \w
Word == Digit \cup Upper \cup Lower \cup {"_"}

\* one atom of a pattern: the characters in set (outside it when neg),
\* repeated lo to hi times (hi = 0: no upper limit), as few as possible
\* when lazy; open and close number the group that starts and ends here
Rep(set, neg, lo, hi) ==
    [set |-> set, neg |-> neg, lo |-> lo, hi |-> hi, lazy |-> FALSE,
     bol |-> FALSE, open |-> 0, close |-> 0]

One(set) == Rep(set, FALSE, 1, 1)

Plus(set) == Rep(set, FALSE, 1, 0)

PlusNot(set) == Rep(set, TRUE, 1, 0)

Star(set) == Rep(set, FALSE, 0, 0)

\* ^ under MULTILINE
Bol == [Rep({}, FALSE, 0, 0) EXCEPT !.bol = TRUE]

Lazy(a) == [a EXCEPT !.lazy = TRUE]

\* ( atoms ) as group number g
Group(g, atoms) ==
    [i \in DOMAIN atoms |->
        [atoms[i] EXCEPT !.open = IF i = 1 THEN g ELSE 0,
                         !.close = IF i = Len(atoms) THEN g ELSE 0]] \o <<>>

\* literal text; under IGNORECASE either case of a letter
Lit(text) == [i \in DOMAIN text |-> One({text[i]})] \o <<>>

LitNoCase(text) ==
    [i \in DOMAIN text |-> One({lower_char(text[i]), upper_char(text[i])})] \o <<>>

\* \d{2}-\d{2}-\d{4}
DateAtoms ==
    <<Rep(Digit, FALSE, 2, 2), One({"-"}), Rep(Digit, FALSE, 2, 2), One({"-"}),
      Rep(Digit, FALSE, 4, 4)>>

InClass(c, a) == (c \in a.set) # a.neg

\* the length of the run of characters of the class of atom a from s[q]
\* on, found sixteen characters at a time
RECURSIVE ClassRun(_, _, _)
ClassRun(s, q, a) ==
    Bind(LAMBDA others :
           IF others # {} THEN (CHOOSE b \in others : \A o \in others : b <= o) - q
           ELSE IF q + 16 > Len(s) THEN Len(s) - q + 1
           ELSE 16 + ClassRun(s, q + 16, a),
         {b \in q..(IF q + 15 > Len(s) THEN Len(s) ELSE q + 15) : ~ InClass(s[b], a)})

\* the numbers of characters from s[p] on that atom a can take
Counts(a, s, p) ==
    Bind(LAMBDA run : a.lo..(IF a.hi = 0 \/ a.hi > run THEN run ELSE a.hi),
         ClassRun(s, p, a))

\* the group ends that atom a sets when it takes the c characters from s[p] on
Marks(a, p, c) ==
    (IF a.open = 0 THEN {} ELSE {[g |-> a.open, from |-> p]})
    \cup (IF a.close = 0 THEN {} ELSE {[g |-> a.close, to |-> p + c - 1]})

\* the ways one atom matches at s[p]: the position after it, the group ends
\* it sets and its preference (smaller is tried first): a greedy atom tries
\* the longest run first, a lazy atom the shortest
AtomWays(a, s, p) ==
    IF a.bol
    THEN IF p = 1 \/ s[p - 1] = "\n"
         THEN {[end |-> p, caps |-> {}, pri |-> <<0>>]} ELSE {}
    ELSE {[end |-> p + c, caps |-> Marks(a, p, c),
           pri |-> <<IF a.lazy THEN c ELSE 0 - c>>] : c \in Counts(a, s, p)}

\* the ways the atoms re[i..j] match at s[p], one after the other
RECURSIVE Ways(_, _, _, _, _)
Ways(re, i, j, s, p) ==
    IF i = j THEN AtomWays(re[i], s, p)
    ELSE Bind(LAMBDA mid :
                UNION {{[end |-> r.end, caps |-> l.caps \cup r.caps,
                         pri |-> l.pri \o r.pri] : r \in Ways(re, mid + 1, j, s, l.end)} :
                       l \in Ways(re, i, mid, s, p)},
              (i + j) \div 2)

\* backtracking takes the first way in the order of the preferences
Earlier(m, o) ==
    \/ m = o
    \/ \E i \in DOMAIN m : m[i] < o[i] /\ \A j \in 1..(i - 1) : m[j] = o[j]

\* the match of re at s[p]: NoMatch, or the way backtracking finds first
MatchAt(re, s, p) ==
    Bind(LAMBDA ways :
           IF ways = {} THEN NoMatch
           ELSE Bind(LAMBDA w : [matched |-> TRUE, end |-> w.end, caps |-> w.caps],
                     CHOOSE w \in ways : \A o \in ways : Earlier(w.pri, o.pri)),
         Ways(re, 1, Len(re), s, p))

\* the matches of re in s at every start position
Hits(re, s) ==
    {h \in {[at |-> p, m |-> MatchAt(re, s, p)] : p \in 1..Len(s)} : h.m.matched}

\* Pattern.search(s): the leftmost match
search(re, string) ==
    Bind(LAMBDA s :
           Bind(LAMBDA hits :
                  IF hits = {} THEN NoMatch
                  ELSE (CHOOSE h \in hits : \A o \in hits : h.at <= o.at).m,
                Hits(re, s)),
         string)

\* Pattern.finditer(s): the leftmost match, then the leftmost match
\* starting at or after its end, and so on
RECURSIVE FindFrom(_, _)
FindFrom(hits, p) ==
    Bind(LAMBDA later :
           IF later = {} THEN <<>>
           ELSE Bind(LAMBDA h : <<h.m>> \o FindFrom(hits, h.m.end),
                     CHOOSE h \in later : \A o \in later : h.at <= o.at),
         {h \in hits : h.at >= p})

finditer(re, string) == Bind(LAMBDA s : FindFrom(Hits(re, s), 1), string)

\* Match.group(g) of the match m in s
GroupOf(s, m, g) ==
    SubSeq(s, (CHOOSE e \in m.caps : e.g = g /\ "from" \in DOMAIN e).from,
              (CHOOSE e \in m.caps : e.g = g /\ "to" \in DOMAIN e).to)

\* ------------------------------------------------------------------------
\* packing_list/patterns.py

\* r'Your\s+Reference\s+([A-Z0-9]+)' with IGNORECASE
edi_number ==
    LitNoCase(<<"Y", "o", "u", "r">>) \o <<Plus(Space)>>
    \o LitNoCase(<<"R", "e", "f", "e", "r", "e", "n", "c", "e">>) \o <<Plus(Space)>>
    \o Group(1, <<Plus(Upper \cup Lower \cup Digit)>>)

\* r'Order\s+Number\s*:\s*(\d+)' with IGNORECASE
order_number ==
    LitNoCase(<<"O", "r", "d", "e", "r">>) \o <<Plus(Space)>>
    \o LitNoCase(<<"N", "u", "m", "b", "e", "r">>) \o <<Star(Space)>>
    \o Lit(<<":">>) \o <<Star(Space)>>
    \o Group(1, <<Plus(Digit)>>)

\* r'Ship\s+Group\s+ID\s*:\s*(\d+)' with IGNORECASE
ship_group_id ==
    LitNoCase(<<"S", "h", "i", "p">>) \o <<Plus(Space)>>
    \o LitNoCase(<<"G", "r", "o", "u", "p">>) \o <<Plus(Space)>>
    \o LitNoCase(<<"I", "D">>) \o <<Star(Space)>>
    \o Lit(<<":">>) \o <<Star(Space)>>
    \o Group(1, <<Plus(Digit)>>)

\* the part the two item patterns share:
\* (\d+)\s+(\w+)\s+(\S+)\s+(.+?)\s+([\d,]+)\s+(\d{13})\s+(\S+)\s+
\* (\d{2}-\d{2}-\d{4})\s+(\d{2}-\d{2}-\d{4})\s+([A-Z]{1,2}); any is the
\* class of the dot
ItemAtoms(any) ==
    Group(1, <<Plus(Digit)>>) \o <<Plus(Space)>>
    \o Group(2, <<Plus(Word)>>) \o <<Plus(Space)>>
    \o Group(3, <<PlusNot(Space)>>) \o <<Plus(Space)>>
    \o Group(4, <<Lazy(any)>>) \o <<Plus(Space)>>
    \o Group(5, <<Plus(QtyChar)>>) \o <<Plus(Space)>>
    \o Group(6, <<Rep(Digit, FALSE, EanLen, EanLen)>>) \o <<Plus(Space)>>
    \o Group(7, <<PlusNot(Space)>>) \o <<Plus(Space)>>
    \o Group(8, DateAtoms) \o <<Plus(Space)>>
    \o Group(9, DateAtoms) \o <<Plus(Space)>>
    \o Group(10, <<Rep(Upper, FALSE, 1, 2)>>)

\* r'^...\s+([YN])' with MULTILINE: the dot takes no newline
item_line ==
    <<Bol>> \o ItemAtoms(PlusNot({"\n"})) \o <<Plus(Space)>>
    \o Group(11, <<One({"Y", "N"})>>)

\* r'...\s*\n?([YN])' with MULTILINE and DOTALL: the dot takes any character
item_line_flexible ==
    ItemAtoms(PlusNot({})) \o <<Star(Space), Rep({"\n"}, FALSE, 0, 1)>>
    \o Group(11, <<One({"Y", "N"})>>)

\* the eleven groups of a match of an item pattern
ItemGroups(s, m) ==
    [g1 |-> GroupOf(s, m, 1), g2 |-> GroupOf(s, m, 2), g3 |-> GroupOf(s, m, 3),
     g4 |-> GroupOf(s, m, 4), g5 |-> GroupOf(s, m, 5), g6 |-> GroupOf(s, m, 6),
     g7 |-> GroupOf(s, m, 7), g8 |-> GroupOf(s, m, 8), g9 |-> GroupOf(s, m, 9),
     g10 |-> GroupOf(s, m, 10), g11 |-> GroupOf(s, m, 11)]

\* ------------------------------------------------------------------------
\* packing_list/parser.py: one page

\* match.group(1) if match else None
GroupOrNone(m, s) == IF m.matched THEN GroupOf(s, m, 1) ELSE None

_extract_common_data(page_text) ==
    [edi_number |-> GroupOrNone(search(edi_number, page_text), page_text),
     order_number |-> GroupOrNone(search(order_number, page_text), page_text),
     shipment_number |-> GroupOrNone(search(ship_group_id, page_text), page_text)]

\* for match in pattern.finditer(page_text): items.append(item)
ItemsOfPattern(re, page_text) ==
    Bind(LAMBDA ms :
           [i \in DOMAIN ms |->
               _create_item_from_match(ItemGroups(page_text, ms[i]))] \o <<>>,
         finditer(re, page_text))

\* the flexible pattern run on every page, its items after the primary ones
_extract_items_both_patterns(page_text) ==
    [items |-> ItemsOfPattern(item_line, page_text)
               \o ItemsOfPattern(item_line_flexible, page_text),
     patterns |-> <<"item_line", "item_line_flexible">>]

\* PackingListParser._extract_items: the items and the patterns that ran
_extract_items_packing(page_text) ==
    Bind(LAMBDA items :
           IF items = <<>>
           THEN [items |-> ItemsOfPattern(item_line_flexible, page_text),
                 patterns |-> <<"item_line", "item_line_flexible">>]
           ELSE [items |-> items, patterns |-> <<"item_line">>],
         ItemsOfPattern(item_line, page_text))

\* for item in items: item.edi_number = common_data.get('edi_number') ...
ApplyCommonData(items, common_data) ==
    [i \in DOMAIN items |->
        [items[i] EXCEPT !.edi_number = common_data.edi_number,
                         !.order_number = common_data.order_number,
                         !.shipment_number = common_data.shipment_number]] \o <<>>

\* page.extract_text() raised
Unreadable == <<"<raises>">>

\* what the page loop of parse_pdf computes from the text of one page
ScanPacking(page_text) ==
    IF page_text = Unreadable THEN [raises |-> TRUE, has_text |-> FALSE]
    ELSE IF ~ Truthy(page_text) THEN [raises |-> FALSE, has_text |-> FALSE]
    ELSE [raises |-> FALSE, has_text |-> TRUE,
          common_data |-> _extract_common_data(page_text),
          found |-> _extract_items_packing(page_text)]

\* the items of a page take the references of the first item collected
parse_pdf_page_first_references(collected, page) ==
    IF ~ page.has_text THEN collected
    ELSE collected \o ApplyCommonData(page.found.items,
                                      IF collected = <<>> THEN page.common_data
                                      ELSE collected[1])

\* one iteration of the page loop of parse_pdf on all_items: page is the
\* ScanPacking of the page
parse_pdf_page(collected, page) ==
    IF ~ page.has_text THEN collected
    ELSE collected \o ApplyCommonData(page.found.items, page.common_data)

\* ------------------------------------------------------------------------
\* The page texts of packing lists (page.extract_text())

\* "Your Reference ED1"
HdrRef1 ==
    <<"Y", "o", "u", "r", " ", "R", "e", "f", "e", "r", "e", "n", "c", "e",
      " ", "E", "D", "1">>

\* "YOUR  REFERENCE ed2"
HdrRef2 ==
    <<"Y", "O", "U", "R", " ", " ", "R", "E", "F", "E", "R", "E", "N", "C",
      "E", " ", "e", "d", "2">>

\* "Order Number: 45"
HdrOrder1 ==
    <<"O", "r", "d", "e", "r", " ", "N", "u", "m", "b", "e", "r", ":", " ",
      "4", "5">>

\* "order number : 46"
HdrOrder2 ==
    <<"o", "r", "d", "e", "r", " ", "n", "u", "m", "b", "e", "r", " ", ":",
      " ", "4", "6">>

\* "Ship Group ID: 77"
HdrShip1 ==
    <<"S", "h", "i", "p", " ", "G", "r", "o", "u", "p", " ", "I", "D", ":",
      " ", "7", "7">>

\* "Ship Group ID:78"
HdrShip2 ==
    <<"S", "h", "i", "p", " ", "G", "r", "o", "u", "p", " ", "I", "D", ":",
      "7", "8">>

\* primary pattern
\* "33 LOR E1 SHAMPOO 1,008 3600542016742 48T101 01-02-2024 01-02-2027 FR N"
PlLineA ==
    <<"3", "3", " ", "L", "O", "R", " ", "E", "1", " ", "S", "H", "A", "M",
      "P", "O", "O", " ", "1", ",", "0", "0", "8", " ", "3", "6", "0", "0",
      "5", "4", "2", "0", "1", "6", "7", "4", "2", " ", "4", "8", "T", "1",
      "0", "1", " ", "0", "1", "-", "0", "2", "-", "2", "0", "2", "4", " ",
      "0", "1", "-", "0", "2", "-", "2", "0", "2", "7", " ", "F", "R", " ",
      "N">>

\* the key of PlLineA, every other field different
\* "34 KER E2 SHAMPOO X 42 3600542016742 48T101 03-04-2024 03-04-2027 DE Y"
PlLineA2 ==
    <<"3", "4", " ", "K", "E", "R", " ", "E", "2", " ", "S", "H", "A", "M",
      "P", "O", "O", " ", "X", " ", "4", "2", " ", "3", "6", "0", "0", "5",
      "4", "2", "0", "1", "6", "7", "4", "2", " ", "4", "8", "T", "1", "0",
      "1", " ", "0", "3", "-", "0", "4", "-", "2", "0", "2", "4", " ", "0",
      "3", "-", "0", "4", "-", "2", "0", "2", "7", " ", "D", "E", " ", "Y">>

\* primary pattern, another key
\* "33 LOR S7 SOAP 7 3600523971503 48T202 01-02-2024 01-02-2027 FR N"
PlLineB ==
    <<"3", "3", " ", "L", "O", "R", " ", "S", "7", " ", "S", "O", "A", "P",
      " ", "7", " ", "3", "6", "0", "0", "5", "2", "3", "9", "7", "1", "5",
      "0", "3", " ", "4", "8", "T", "2", "0", "2", " ", "0", "1", "-", "0",
      "2", "-", "2", "0", "2", "4", " ", "0", "1", "-", "0", "2", "-", "2",
      "0", "2", "7", " ", "F", "R", " ", "N">>

\* flexible pattern only: the line does not start with the HS code
\* " 35 LOR E3 SHAMPOO 5 3600542016742 48T101 05-06-2024 05-06-2027 IT N"
PlLineIndent ==
    <<" ", "3", "5", " ", "L", "O", "R", " ", "E", "3", " ", "S", "H", "A",
      "M", "P", "O", "O", " ", "5", " ", "3", "6", "0", "0", "5", "4", "2",
      "0", "1", "6", "7", "4", "2", " ", "4", "8", "T", "1", "0", "1", " ",
      "0", "5", "-", "0", "6", "-", "2", "0", "2", "4", " ", "0", "5", "-",
      "0", "6", "-", "2", "0", "2", "7", " ", "I", "T", " ", "N">>

\* flexible pattern only: nothing between country and flag
\* "33 LOR S8 SOAP B 9 3600523971503 48T202 01-02-2024 01-02-2027 FRN"
PlLineGlued ==
    <<"3", "3", " ", "L", "O", "R", " ", "S", "8", " ", "S", "O", "A", "P",
      " ", "B", " ", "9", " ", "3", "6", "0", "0", "5", "2", "3", "9", "7",
      "1", "5", "0", "3", " ", "4", "8", "T", "2", "0", "2", " ", "0", "1",
      "-", "0", "2", "-", "2", "0", "2", "4", " ", "0", "1", "-", "0", "2",
      "-", "2", "0", "2", "7", " ", "F", "R", "N">>

PackingPages ==
    <<JoinLines(<<HdrRef1, HdrOrder1, HdrShip1, PlLineA, PlLineB>>),
      JoinLines(<<HdrRef2, HdrOrder2, HdrShip2, PlLineA2>>),
      PlLineIndent,
      JoinLines(<<HdrRef1, HdrOrder1, HdrShip1, PlLineB, PlLineIndent>>),
      JoinLines(<<HdrOrder2, PlLineGlued>>),
      JoinLines(<<HdrRef2, HdrShip2>>),
      <<>>,
      None,
      Unreadable>>

PackingScan ==
    <<ScanPacking(PackingPages[1]), ScanPacking(PackingPages[2]),
      ScanPacking(PackingPages[3]), ScanPacking(PackingPages[4]),
      ScanPacking(PackingPages[5]), ScanPacking(PackingPages[6]),
      ScanPacking(PackingPages[7]), ScanPacking(PackingPages[8]),
      ScanPacking(PackingPages[9])>>

\* ------------------------------------------------------------------------
\* The items handed to _group_items_by_ean_batch: items_qty is an
\* Optional[str], whatever a caller has put there

QtyItem(ean, batch, qty) ==
    [_create_item_from_match(ItemMatch(<<"E", "1">>, <<"S", "O", "A", "P">>,
                                       <<"1">>, ean, batch))
        EXCEPT !.items_qty = qty]

\* "5", "12A", None, "", "1_0", " 7 ", "-2" and "3", "x"
QtyItems ==
    {QtyItem(Ean1, Batch1, q) :
        q \in {<<"5">>, <<"1", "2", "A">>, None, <<>>, <<"1", "_", "0">>,
               <<" ", "7", " ">>, <<"-", "2">>}}
    \cup {QtyItem(Ean2, Batch1, q) : q \in {<<"3">>, <<"x">>}}

\* ------------------------------------------------------------------------
\* document_parser.py

\* DocumentType, and a value that is none of its members (Python None)
INVOICE == "invoice"

PACKING_LIST == "packing_list"

AUTO == "auto"

NotAType == "None"

\* os.path.basename(path): what follows the last "/"
basename(path) ==
    Bind(LAMBDA cuts :
           IF cuts = {} THEN path
           ELSE SubSeq(path, (CHOOSE c \in cuts : \A o \in cuts : c >= o) + 1, Len(path)),
         {c \in DOMAIN path : path[c] = "/"})

\* ['invoice', 'ci', 'commercial']
InvoiceNameKeywords ==
    <<<<"i", "n", "v", "o", "i", "c", "e">>,
      <<"c", "i">>,
      <<"c", "o", "m", "m", "e", "r", "c", "i", "a", "l">>>>

\* ['packing', 'pl', 'pack']
PackingNameKeywords ==
    <<<<"p", "a", "c", "k", "i", "n", "g">>,
      <<"p", "l">>,
      <<"p", "a", "c", "k">>>>

\* invoice_keywords
invoice_keywords ==
    <<<<"C", "O", "M", "M", "E", "R", "C", "I", "A", "L", " ", "I", "N", "V", "O", "I", "C", "E">>,
      <<"I", "N", "V", "O", "I", "C", "E">>,
      <<"B", "I", "L", "L", " ", "T", "O">>,
      <<"S", "H", "I", "P", " ", "T", "O">>,
      <<"I", "N", "V", "O", "I", "C", "E", " ", "N", "U", "M", "B", "E", "R">>,
      <<"I", "N", "V", "O", "I", "C", "E", " ", "D", "A", "T", "E">>,
      <<"E", "A", "N">>,
      <<"U", "N", "I", "T", " ", "P", "R", "I", "C", "E">>>>

\* packing_keywords
packing_keywords ==
    <<<<"P", "A", "C", "K", "I", "N", "G", " ", "L", "I", "S", "T">>,
      <<"P", "A", "C", "K", "I", "N", "G">>,
      <<"S", "H", "I", "P", "P", "E", "R">>,
      <<"C", "O", "N", "S", "I", "G", "N", "E", "E">>,
      <<"V", "E", "S", "S", "E", "L">>,
      <<"V", "O", "Y", "A", "G", "E">>,
      <<"P", "O", "R", "T", " ", "O", "F", " ", "L", "O", "A", "D", "I", "N", "G">>,
      <<"G", "R", "O", "S", "S", " ", "W", "E", "I", "G", "H", "T">>>>

\* any(keyword in text for keyword in keywords)
AnyIn(keywords, text) == \E k \in DOMAIN keywords : Contains(text, keywords[k])

\* sum(1 for keyword in keywords if keyword in text)
Score(keywords, text) ==
    Cardinality({k \in DOMAIN keywords : Contains(text, keywords[k])})

\* ------------------------------------------------------------------------
\* The PDF files: exists is os.path.exists, opens is whether
\* pdfplumber.open succeeds, pages are numbers of DocPages

\* four packing keywords after upper(), no invoice keyword
\* "packing list\nConsignee: ACME\nVessel: X"
CoverPacking ==
    <<"p", "a", "c", "k", "i", "n", "g", " ", "l", "i", "s", "t", "\n", "C",
      "o", "n", "s", "i", "g", "n", "e", "e", ":", " ", "A", "C", "M", "E",
      "\n", "V", "e", "s", "s", "e", "l", ":", " ", "X">>

\* two invoice keywords, one packing keyword
\* "Commercial Invoice\nPacking"
CoverInvoice ==
    <<"C", "o", "m", "m", "e", "r", "c", "i", "a", "l", " ", "I", "n", "v",
      "o", "i", "c", "e", "\n", "P", "a", "c", "k", "i", "n", "g">>

\* one keyword of each family
\* "Invoice\nShipper"
CoverTie ==
    <<"I", "n", "v", "o", "i", "c", "e", "\n", "S", "h", "i", "p", "p", "e",
      "r">>

DocPages ==
    <<[text |-> CoverPacking, tables |-> <<>>],
      [text |-> CoverInvoice, tables |-> <<>>],
      [text |-> CoverTie, tables |-> <<>>],
      PdfPages[5],
      PdfPages[7],
      PdfPages[3],
      [text |-> PackingPages[1], tables |-> <<>>],
      [text |-> PackingPages[2], tables |-> <<>>],
      [text |-> Unreadable, tables |-> <<>>],
      [text |-> None, tables |-> <<>>]>>

\* what the two parsers read from each page of DocPages
DocScan ==
    <<[inv |-> Scan(DocPages[1]), pl |-> ScanPacking(DocPages[1].text)],
      [inv |-> Scan(DocPages[2]), pl |-> ScanPacking(DocPages[2].text)],
      [inv |-> Scan(DocPages[3]), pl |-> ScanPacking(DocPages[3].text)],
      [inv |-> Scan(DocPages[4]), pl |-> ScanPacking(DocPages[4].text)],
      [inv |-> Scan(DocPages[5]), pl |-> ScanPacking(DocPages[5].text)],
      [inv |-> Scan(DocPages[6]), pl |-> ScanPacking(DocPages[6].text)],
      [inv |-> Scan(DocPages[7]), pl |-> ScanPacking(DocPages[7].text)],
      [inv |-> Scan(DocPages[8]), pl |-> ScanPacking(DocPages[8].text)],
      [inv |-> Scan(DocPages[9]), pl |-> ScanPacking(DocPages[9].text)],
      [inv |-> Scan(DocPages[10]), pl |-> ScanPacking(DocPages[10].text)]>>

PdfFile(path, exists, opens, page_numbers) ==
    [path |-> path, exists |-> exists, opens |-> opens, pages |-> page_numbers]

Files ==
    <<
      \* 1: "in/2024 CI.pdf": an invoice, named as one
      PdfFile(<<"i", "n", "/", "2", "0", "2", "4", " ", "C", "I", ".", "p", "d", "f">>,
              TRUE, TRUE, <<4, 6, 5>>),
      \* 2: "out/pack_ci.pdf": a packing list whose name has keywords of both families
      PdfFile(<<"o", "u", "t", "/", "p", "a", "c", "k", "_", "c", "i", ".", "p", "d", "f">>,
              TRUE, TRUE, <<7, 8>>),
      \* 3: "PL-7.PDF": a packing list, named as one in capitals
      PdfFile(<<"P", "L", "-", "7", ".", "P", "D", "F">>,
              TRUE, TRUE, <<7, 8>>),
      \* 4: "invoice/doc1.pdf": a packing list by its first page; only the directory has a keyword
      PdfFile(<<"i", "n", "v", "o", "i", "c", "e", "/", "d", "o", "c", "1", ".", "p", "d", "f">>,
              TRUE, TRUE, <<1, 7>>),
      \* 5: "scan.pdf": an invoice behind a first page with a tie
      PdfFile(<<"s", "c", "a", "n", ".", "p", "d", "f">>,
              TRUE, TRUE, <<3, 4>>),
      \* 6: "memo.pdf": a first page with more invoice keywords
      PdfFile(<<"m", "e", "m", "o", ".", "p", "d", "f">>,
              TRUE, TRUE, <<2, 7>>),
      \* 7: "sheet.pdf": a packing list without any keyword on its first page
      PdfFile(<<"s", "h", "e", "e", "t", ".", "p", "d", "f">>,
              TRUE, TRUE, <<7>>),
      \* 8: "broken.pdf": pdfplumber.open raises
      PdfFile(<<"b", "r", "o", "k", "e", "n", ".", "p", "d", "f">>,
              TRUE, FALSE, <<>>),
      \* 9: "missing.pdf": no such file
      PdfFile(<<"m", "i", "s", "s", "i", "n", "g", ".", "p", "d", "f">>,
              FALSE, FALSE, <<>>),
      \* 10: "empty.pdf": no pages
      PdfFile(<<"e", "m", "p", "t", "y", ".", "p", "d", "f">>,
              TRUE, TRUE, <<>>),
      \* 11: "torn.pdf": extract_text raises on the first page
      PdfFile(<<"t", "o", "r", "n", ".", "p", "d", "f">>,
              TRUE, TRUE, <<9, 4>>),
      \* 12: "blank.pdf": extract_text returns None on the first page
      PdfFile(<<"b", "l", "a", "n", "k", ".", "p", "d", "f">>,
              TRUE, TRUE, <<10, 7>>),
      \* 13: "late.pdf": extract_text raises on the second page, after a page of invoice N1
      PdfFile(<<"l", "a", "t", "e", ".", "p", "d", "f">>,
              TRUE, TRUE, <<4, 9>>)
    >>

FileAt(pdf_path) == CHOOSE f \in Range(Files) : f.path = pdf_path

\* ------------------------------------------------------------------------
\* DocumentParser._detect_document_type: the type, and whether the file was
\* opened to look at its first page

\* the scores of the first page, a tie going to the packing list
ContentTypeTieToPacking(first_page_text) ==
    IF Score(invoice_keywords, first_page_text) > Score(packing_keywords, first_page_text)
    THEN INVOICE ELSE PACKING_LIST

\* the scores of the first page: the family with strictly more keywords,
\* and INVOICE by default
ContentType(first_page_text) ==
    Bind(LAMBDA invoice_score :
           Bind(LAMBDA packing_score :
                  IF invoice_score > packing_score THEN INVOICE
                  ELSE IF packing_score > invoice_score THEN PACKING_LIST
                  ELSE INVOICE,
                Score(packing_keywords, first_page_text)),
         Score(invoice_keywords, first_page_text))

\* the try block: any exception, and a file without pages, fall through
\* to the default; first_page_text = (extract_text() or "").upper()
DetectByContent(file) ==
    IF ~ file.exists \/ ~ file.opens THEN INVOICE
    ELSE IF file.pages = <<>> THEN INVOICE
    ELSE IF DocPages[file.pages[1]].text = Unreadable THEN INVOICE
    ELSE ContentType(upper(IF Truthy(DocPages[file.pages[1]].text)
                           THEN DocPages[file.pages[1]].text ELSE <<>>))

\* the packing-list keywords of the name are tested first
_detect_document_type_packing_first(pdf_path) ==
    Bind(LAMBDA filename :
           IF AnyIn(PackingNameKeywords, filename)
           THEN [type |-> PACKING_LIST, opened |-> FALSE]
           ELSE IF AnyIn(InvoiceNameKeywords, filename)
           THEN [type |-> INVOICE, opened |-> FALSE]
           ELSE [type |-> DetectByContent(FileAt(pdf_path)), opened |-> TRUE],
         lower(basename(pdf_path)))

_detect_document_type(pdf_path) ==
    Bind(LAMBDA filename :
           IF AnyIn(InvoiceNameKeywords, filename)
           THEN [type |-> INVOICE, opened |-> FALSE]
           ELSE IF AnyIn(PackingNameKeywords, filename)
           THEN [type |-> PACKING_LIST, opened |-> FALSE]
           ELSE [type |-> DetectByContent(FileAt(pdf_path)), opened |-> TRUE],
         lower(basename(pdf_path)))

\* ------------------------------------------------------------------------
\* DocumentParser.parse_document and parse_multiple_documents

\* a call ends by an exception of class kind with str(e) = text + arg, or
\* by returning value
Raised(kind, text, arg) ==
    [raised |-> TRUE, kind |-> kind, error |-> [text |-> text, arg |-> arg]]

Returned(value) == [raised |-> FALSE, value |-> value]

\* pdfplumber.open or a page of the file raises: both parse_pdf methods
\* raise Exception(f"PDF reading error: {str(e)}") in its place
ReadFails(file) ==
    \/ ~ file.exists
    \/ ~ file.opens
    \/ \E n \in DOMAIN file.pages : DocPages[file.pages[n]].text = Unreadable

ReadingError == Raised("Exception", "PDF reading error: ", <<"<pdfplumber>">>)

\* InvoiceParser.parse_pdf: the page loop from page n on
RECURSIVE InvoicePagesFrom(_, _, _)
InvoicePagesFrom(st, page_numbers, n) ==
    IF n > Len(page_numbers) THEN st
    ELSE Bind(LAMBDA next : InvoicePagesFrom(next, page_numbers, n + 1),
              parse_page(st, DocScan[page_numbers[n]].inv))

\* the pages before the one that raises
ReadablePrefix(page_numbers) ==
    IF \E n \in DOMAIN page_numbers : DocPages[page_numbers[n]].text = Unreadable
    THEN SubSeq(page_numbers, 1,
                (CHOOSE n \in DOMAIN page_numbers :
                    /\ DocPages[page_numbers[n]].text = Unreadable
                    /\ \A o \in 1..(n - 1) : DocPages[page_numbers[o]].text # Unreadable) - 1)
    ELSE page_numbers

\* a failure ends the loop and what was collected is returned
parse_invoice_pdf_swallow(pdf_path) ==
    Bind(LAMBDA file :
           Returned(end_of_input(
               InvoicePagesFrom([invoice |-> InvoiceData, invoice_data |-> <<>>],
                                IF file.exists /\ file.opens
                                THEN ReadablePrefix(file.pages) ELSE <<>>, 1))),
         FileAt(pdf_path))

parse_invoice_pdf(pdf_path) ==
    Bind(LAMBDA file :
           IF ReadFails(file) THEN ReadingError
           ELSE Returned(end_of_input(
                    InvoicePagesFrom([invoice |-> InvoiceData, invoice_data |-> <<>>],
                                     file.pages, 1))),
         FileAt(pdf_path))

\* PackingListParser.parse_pdf: the page loop from page n on
RECURSIVE PackingPagesFrom(_, _, _)
PackingPagesFrom(collected, page_numbers, n) ==
    IF n > Len(page_numbers) THEN collected
    ELSE Bind(LAMBDA next : PackingPagesFrom(next, page_numbers, n + 1),
              parse_pdf_page(collected, DocScan[page_numbers[n]].pl))

parse_packing_list_pdf(pdf_path) ==
    Bind(LAMBDA file :
           IF ReadFails(file) THEN ReadingError
           ELSE Returned(_group_items_by_ean_batch(
                    PackingPagesFrom(<<>>, file.pages, 1))),
         FileAt(pdf_path))

\* ------------------------------------------------------------------------
\* What a process holds from one call of a parser to the next

\* logging.getLogger(__name__) of a parser module, before any parser is made
NoLogger == [handlers |-> 0, level |-> "NOTSET"]

\* InvoiceParser._setup_logger, PackingListParser._setup_logger: the first
\* parser made with debug adds a handler and sets the level, for good
_setup_logger(logger, debug) ==
    IF debug /\ logger.handlers = 0
    THEN [handlers |-> 1, level |-> "DEBUG"]
    ELSE logger

\* the two module loggers, and the locals the last call of each parser
\* ended with: the in-progress invoice, the list all_items
FreshProcess ==
    [invoice_logger |-> NoLogger, packing_logger |-> NoLogger,
     invoice |-> InvoiceData, all_items |-> <<>>]

\* the record a call starts from is the one the call before left
NewInvoiceCarried(process) == process.invoice

\* invoice/parser.py:47: invoice = InvoiceData()
NewInvoice(process) == InvoiceData

\* packing_list/parser.py:43: all_items = []
NewItems(process) == <<>>

\* the pages a call reads before it returns or raises
OpenedPages(file) ==
    IF file.exists /\ file.opens THEN ReadablePrefix(file.pages) ELSE <<>>

\* parse_invoice_pdf(pdf_path, debug) in a process: the outcome of the call
\* and the process after it
InvoiceCall(process, pdf_path, debug) ==
    Bind(LAMBDA file :
           Bind(LAMBDA st :
                  [outcome |-> IF ReadFails(file) THEN ReadingError
                               ELSE Returned(end_of_input(st)),
                   process |-> [process EXCEPT
                                   !.invoice_logger = _setup_logger(@, debug),
                                   !.invoice = st.invoice]],
                InvoicePagesFrom([invoice |-> NewInvoice(process), invoice_data |-> <<>>],
                                 OpenedPages(file), 1)),
         FileAt(pdf_path))

\* parse_packing_list_pdf(pdf_path, debug) in a process
PackingCall(process, pdf_path, debug) ==
    Bind(LAMBDA file :
           Bind(LAMBDA collected :
                  [outcome |-> IF ReadFails(file) THEN ReadingError
                               ELSE Returned(_group_items_by_ean_batch(collected)),
                   process |-> [process EXCEPT
                                   !.packing_logger = _setup_logger(@, debug),
                                   !.all_items = collected]],
                PackingPagesFrom(NewItems(process), OpenedPages(file), 1)),
         FileAt(pdf_path))

ParserCall(process, call) ==
    IF call.type = INVOICE
    THEN InvoiceCall(process, call.path, call.debug)
    ELSE PackingCall(process, call.path, call.debug)

\* the members of DocumentType
DocumentType == {INVOICE, PACKING_LIST, AUTO}

\* parse_document up to the dispatch: the exists test and the detection.
\* classified and opened tell whether _detect_document_type ran and whether
\* it opened the file
ResolveType(pdf_path, doc_type) ==
    IF ~ FileAt(pdf_path).exists
    THEN Raised("FileNotFoundError", "PDF file not found: ", pdf_path)
    ELSE IF doc_type = AUTO
    THEN Bind(LAMBDA detected :
                Returned([type |-> detected.type, classified |-> TRUE,
                          opened |-> detected.opened]),
              _detect_document_type(pdf_path))
    ELSE Returned([type |-> doc_type, classified |-> FALSE, opened |-> FALSE])

\* the result dict of a pipeline that returned data
ResultOf(tag, pdf_path, parsed) ==
    IF parsed.raised THEN parsed
    ELSE Returned([document_type |-> tag, file_path |-> pdf_path,
                   data |-> parsed.value, count |-> Len(parsed.value)])

\* the result carries the tag of the type the caller asked for
Dispatch_tag_as_requested(pdf_path, doc_type, asked) ==
    IF doc_type = INVOICE
    THEN ResultOf(asked, pdf_path, parse_invoice_pdf(pdf_path))
    ELSE IF doc_type = PACKING_LIST
    THEN ResultOf(asked, pdf_path, parse_packing_list_pdf(pdf_path))
    ELSE Raised("ValueError", "Unsupported document type: ", <<doc_type>>)

\* parse_document from the dispatch on: doc_type is the resolved type,
\* asked the type the caller gave
Dispatch(pdf_path, doc_type, asked) ==
    IF doc_type = INVOICE
    THEN ResultOf("invoice", pdf_path, parse_invoice_pdf(pdf_path))
    ELSE IF doc_type = PACKING_LIST
    THEN ResultOf("packing_list", pdf_path, parse_packing_list_pdf(pdf_path))
    ELSE Raised("ValueError", "Unsupported document type: ", <<doc_type>>)

parse_document(pdf_path, doc_type) ==
    Bind(LAMBDA resolved :
           IF resolved.raised THEN resolved
           ELSE Dispatch(pdf_path, resolved.value.type, doc_type),
         ResolveType(pdf_path, doc_type))

\* the doc_types argument: one value for all files, or a list
OneType(type) == [single |-> TRUE, type |-> type]

TypeList(list) == [single |-> FALSE, list |-> list]

\* the list zipped with the paths whatever its length
ExpandTypes_no_length_check(pdf_paths, doc_types) ==
    IF doc_types.single /\ doc_types.type \in DocumentType
    THEN Returned([n \in DOMAIN pdf_paths |-> doc_types.type] \o <<>>)
    ELSE IF doc_types.single
    THEN Raised("TypeError", "object of type 'NoneType' has no len()", <<>>)
    ELSE Returned(doc_types.list)

\* parse_multiple_documents before its loop: [doc_types] * len(pdf_paths)
\* for a DocumentType, and the length test; len() of a value that is
\* neither a DocumentType nor a list raises TypeError
ExpandTypes(pdf_paths, doc_types) ==
    IF doc_types.single /\ doc_types.type \in DocumentType
    THEN Returned([n \in DOMAIN pdf_paths |-> doc_types.type] \o <<>>)
    ELSE IF doc_types.single
    THEN Raised("TypeError", "object of type 'NoneType' has no len()", <<>>)
    ELSE IF Len(doc_types.list) # Len(pdf_paths)
    THEN Raised("ValueError", "doc_types list must match pdf_paths length", <<>>)
    ELSE Returned(doc_types.list)

\* the entry appended for a file whose parse_document raised
ErrorEntry(pdf_path, error) ==
    [document_type |-> "error", file_path |-> pdf_path, error |-> error,
     data |-> None, count |-> 0]

\* a file that fails gets no entry
BatchStep_skip_failed(entries, pdf_path, doc_type) ==
    Bind(LAMBDA outcome :
           IF outcome.raised THEN entries ELSE Append(entries, outcome.value),
         parse_document(pdf_path, doc_type))

\* one iteration of the loop of parse_multiple_documents on results
BatchStep(entries, pdf_path, doc_type) ==
    Bind(LAMBDA outcome :
           IF outcome.raised
           THEN Append(entries, ErrorEntry(pdf_path, outcome.error))
           ELSE Append(entries, outcome.value),
         parse_document(pdf_path, doc_type))

\* the loop of parse_multiple_documents over zip(pdf_paths, doc_types),
\* from pair n on
RECURSIVE BatchFrom(_, _, _, _)
BatchFrom(entries, pdf_paths, types, n) ==
    IF n > Len(pdf_paths) \/ n > Len(types) THEN entries
    ELSE Bind(LAMBDA next : BatchFrom(next, pdf_paths, types, n + 1),
              BatchStep(entries, pdf_paths[n], types[n]))

parse_multiple_documents(pdf_paths, doc_types) ==
    Bind(LAMBDA expanded :
           IF expanded.raised THEN expanded
           ELSE Returned(BatchFrom(<<>>, pdf_paths, expanded.value, 1)),
         ExpandTypes(pdf_paths, doc_types))

\* ------------------------------------------------------------------------
\* excel_utils.py: the cells create_invoice_sheet and
\* create_packing_list_sheet derive from a record

\* string.split(sep) from position a on, sep a single character
RECURSIVE SplitOnFrom(_, _, _)
SplitOnFrom(s, sep, a) ==
    IF \E p \in a..Len(s) : s[p] = sep
    THEN Bind(LAMBDA cut : <<SubSeq(s, a, cut - 1)>> \o SplitOnFrom(s, sep, cut + 1),
              CHOOSE p \in a..Len(s) : s[p] = sep /\ \A o \in a..(p - 1) : s[o] # sep)
    ELSE <<SubSeq(s, a, Len(s))>>

SplitOn(string, sep) == SplitOnFrom(string, sep, 1)

\* string.zfill(width): zeros on the left, after a leading sign
zfill(string, width) ==
    IF Len(string) >= width THEN string
    ELSE IF Len(string) > 0 /\ string[1] \in {"+", "-"}
    THEN <<string[1]>> \o [n \in 1..(width - Len(string)) |-> "0"] \o Tail(string)
    ELSE [n \in 1..(width - Len(string)) |-> "0"] \o string

\* the month and the day change places
ReformatDateMonthFirst(date, sep) ==
    IF ~ Truthy(date) THEN date
    ELSE IF sep \notin Range(date) THEN date
    ELSE Bind(LAMBDA parts :
                IF Len(parts) # 3 THEN date
                ELSE parts[3] \o <<"-">> \o zfill(parts[1], 2) \o <<"-">> \o zfill(parts[2], 2),
              SplitOn(date, sep))

\* the date block of both sheets: "if date and sep in date", the unpacking
\* of split into day, month, year, which raises unless there are three
\* parts, and the bare except that keeps the original
ReformatDate(date, sep) ==
    IF ~ Truthy(date) THEN date
    ELSE IF sep \notin Range(date) THEN date
    ELSE Bind(LAMBDA parts :
                IF Len(parts) # 3 THEN date
                ELSE parts[3] \o <<"-">> \o zfill(parts[2], 2) \o <<"-">> \o zfill(parts[1], 2),
              SplitOn(date, sep))

\* the last two characters are dropped
ref_00_cut(code) ==
    IF Truthy(code) /\ Len(code) >= 2 THEN SubSeq(code, 1, Len(code) - 2) ELSE code

\* ref_00 = code[:-2] + "00" when the code has two characters or more
ref_00(code) ==
    IF Truthy(code) /\ Len(code) >= 2
    THEN SubSeq(code, 1, Len(code) - 2) \o <<"0", "0">>
    ELSE code

\* create_invoice_sheet: the cells InvoiceDate, Ref and Ref00 of a row
InvoiceRow(invoice_date, product_code) ==
    [InvoiceDate |-> ReformatDate(invoice_date, "."),
     Ref |-> product_code,
     Ref00 |-> ref_00(product_code)]

\* create_packing_list_sheet: the cells REF, REF_00, MfgDate and ExpDate of
\* a row
PackingRow(sku, mfg_date, exp_date) ==
    [REF |-> sku,
     REF_00 |-> ref_00(sku),
     MfgDate |-> ReformatDate(mfg_date, "-"),
     ExpDate |-> ReformatDate(exp_date, "-")]

\* the dates and the codes of the records exported
ExportDates ==
    {<<"0", "5", ".", "1", "1", ".", "2", "0", "2", "4">>,
     <<"3", "1", ".", "0", "1", ".", "2", "0", "2", "5">>,
     <<"0", "5", "-", "1", "1", "-", "2", "0", "2", "4">>,
     <<"3", "1", "-", "0", "1", "-", "2", "0", "2", "5">>,
     <<"0", "5", "/", "1", "1", "/", "2", "0", "2", "4">>,
     <<"0", "5", " ", "1", "1", " ", "2", "0", "2", "4">>,
     <<"0", "5", ".", "1", "1">>,
     <<"0", "5", "-", "1", "1">>,
     <<"1", ".", "2", ".", "3", ".", "4">>,
     <<"1", "-", "2", "-", "3", "-", "4">>,
     <<"5", ".", "1", ".", "2", "0", "2", "4">>,
     <<"0", "5", ".", "1", "1", "-", "2", "0", "2", "4">>,
     <<>>,
     None}

ExportCodes ==
    {<<"A", "B", "C", "1", "2", "3", "4">>,
     <<"E", "1", "2", "3", "4", "5", "0", "0">>,
     <<"C", "9">>,
     <<"A", "B">>,
     <<"7">>,
     <<>>,
     None}

ExpiryDates ==
    {<<"0", "1", "-", "0", "2", "-", "2", "0", "2", "7">>,
     <<"0", "1", ".", "0", "2", ".", "2", "0", "2", "7">>,
     <<"2", "0", "2", "7">>,
     None}

\* ------------------------------------------------------------------------
\* State

MaxPages == 4

MaxLines == 2

MaxItems == 4

MaxPlPages == 3

MaxQtyItems == 3

MaxBatch == 3

MaxCalls == 3

VARIABLES
    pages,          \* parse_pdf: the pages read so far (indices into PdfPages)
    invoice,        \* parse_pdf: the in-progress InvoiceData
    invoice_data,   \* parse_pdf: the output list
    pc,             \* parse_pdf: "pages" in the loop, "done" after the return
    start,          \* history: index of the first page after the last marker
    ranges,         \* history: the page range <<from, to>> of each emitted record
    in_text,        \* _extract_items: page_text, page_tables and the result
    in_tables,
    out_items,
    ipc,            \* "call" before _extract_items, "return" after
    matches,        \* packing list: the regex matches of a document
    all_items,      \* packing list: the items created from them
    grouped_items,  \* packing list: the result of the grouping pass
    regrouped,      \* the grouping pass applied to grouped_items
    gpc             \* "matched", "created", "grouped", "regrouped"

invVars == <<pages, invoice, invoice_data, pc, start, ranges>>

itemVars == <<in_text, in_tables, out_items, ipc>>

grpVars == <<matches, all_items, grouped_items, regrouped, gpc>>

VARIABLES
    pl_pages,       \* packing parse_pdf: the pages read so far (indices into PackingPages)
    pl_items,       \* packing parse_pdf: all_items
    pl_from,        \* history: for each item of all_items the number of its page
    pl_ran,         \* history: for each page read the patterns _extract_items ran
    pl_out,         \* packing parse_pdf: the list returned
    plpc            \* "pages" in the loop, "done" after the return, "raised"

plVars == <<pl_pages, pl_items, pl_from, pl_ran, pl_out, plpc>>

VARIABLES
    q_items,        \* _group_items_by_ean_batch: the argument items
    q_grouped,      \* _group_items_by_ean_batch: the dict grouped
    q_n,            \* the number of the item the loop is at
    q_result,       \* the list returned
    qpc             \* "loop" in the loop, "done" after the return

qtyVars == <<q_items, q_grouped, q_n, q_result, qpc>>

VARIABLES
    d_file,         \* parse_document: pdf_path (index into Files)
    d_type,         \* parse_document: doc_type
    d_resolved,     \* the type after the AUTO branch, and how it was found
    d_outcome,      \* what the call returned or raised
    dpc             \* "call", "resolved", "returned", "raised"

docVars == <<d_file, d_type, d_resolved, d_outcome, dpc>>

VARIABLES
    b_files,        \* parse_multiple_documents: pdf_paths (indices into Files)
    b_types,        \* parse_multiple_documents: the argument doc_types
    b_list,         \* doc_types after the expansion of a single type
    b_results,      \* results
    b_n,            \* the number of the pair the loop is at
    b_error,        \* what the call raised
    bpc             \* "call", "loop", "done", "raised"

batchVars == <<b_files, b_types, b_list, b_results, b_n, b_error, bpc>>

VARIABLES
    m_tables,       \* _extract_metadata: page_tables
    m_text,         \* _extract_metadata: page_text
    m_out,          \* the metadata returned
    mpc             \* "call" before _extract_metadata, "return" after

metaVars == <<m_tables, m_text, m_out, mpc>>

VARIABLES
    e_sheet,        \* "invoice" for create_invoice_sheet, "packing_list" for the other
    e_date,         \* invoice.invoice_date, or item.mfg_date
    e_date2,        \* item.exp_date
    e_code,         \* item.product_code, or item.sku
    e_row,          \* the cells written
    epc             \* "call" before the row is written, "return" after

exportVars == <<e_sheet, e_date, e_date2, e_code, e_row, epc>>

VARIABLES
    s_process,      \* what the process holds between calls
    s_calls,        \* history: the calls made, [path, type, debug]
    s_results,      \* history: the outcome of each call
    spc             \* "ready" between calls

sessVars == <<s_process, s_calls, s_results, spc>>

auxVars == <<metaVars, exportVars, sessVars>>

vars == <<invVars, itemVars, grpVars, plVars, qtyVars, docVars, batchVars, auxVars>>

mainVars == <<invVars, itemVars, grpVars, plVars, qtyVars, docVars, batchVars>>

InvIdle ==
    /\ pages = <<>>
    /\ invoice = InvoiceData
    /\ invoice_data = <<>>
    /\ pc = "idle"
    /\ start = 1
    /\ ranges = <<>>

ItemIdle ==
    /\ in_text = <<>>
    /\ in_tables = <<>>
    /\ out_items = <<>>
    /\ ipc = "idle"

GrpIdle ==
    /\ matches = <<>>
    /\ all_items = <<>>
    /\ grouped_items = <<>>
    /\ regrouped = <<>>
    /\ gpc = "idle"

QtyIdle ==
    /\ q_items = <<>>
    /\ q_grouped = <<>>
    /\ q_n = 1
    /\ q_result = <<>>
    /\ qpc = "idle"

NoOutcome == Returned(None)

DocIdle ==
    /\ d_file = 0
    /\ d_type = "idle"
    /\ d_resolved = NoOutcome
    /\ d_outcome = NoOutcome
    /\ dpc = "idle"

BatchIdle ==
    /\ b_files = <<>>
    /\ b_types = OneType("idle")
    /\ b_list = <<>>
    /\ b_results = <<>>
    /\ b_n = 1
    /\ b_error = NoOutcome
    /\ bpc = "idle"

PlIdle ==
    /\ pl_pages = <<>>
    /\ pl_items = <<>>
    /\ pl_from = <<>>
    /\ pl_ran = <<>>
    /\ pl_out = <<>>
    /\ plpc = "idle"

MainIdle == InvIdle /\ ItemIdle /\ GrpIdle /\ PlIdle /\ QtyIdle /\ DocIdle /\ BatchIdle

MetaIdle ==
    /\ m_tables = <<>>
    /\ m_text = <<>>
    /\ m_out = InvoiceData
    /\ mpc = "idle"

ExportIdle ==
    /\ e_sheet = "idle"
    /\ e_date = None
    /\ e_date2 = None
    /\ e_code = None
    /\ e_row = [Ref |-> None]
    /\ epc = "idle"

SessIdle ==
    /\ s_process = FreshProcess
    /\ s_calls = <<>>
    /\ s_results = <<>>
    /\ spc = "idle"

AuxIdle == MetaIdle /\ ExportIdle /\ SessIdle

\* ------------------------------------------------------------------------
\* InvoiceParser.parse_pdf as a state machine

InvInit ==
    /\ pages = <<>>
    /\ invoice = InvoiceData
    /\ invoice_data = <<>>
    /\ pc = "pages"
    /\ start = 1
    /\ ranges = <<>>

\* for page_num, page in enumerate(pdf.pages, 1): one iteration
ProcessPage ==
    /\ pc = "pages"
    /\ Len(pages) < MaxPages
    /\ \E i \in DOMAIN PdfPages :
          LET st == parse_page([invoice |-> invoice, invoice_data |-> invoice_data],
                               PageScan[i])
              n  == Len(pages) + 1
          IN  /\ pages' = Append(pages, i)
              /\ invoice' = st.invoice
              /\ invoice_data' = st.invoice_data
              /\ ranges' = IF Len(st.invoice_data) > Len(invoice_data)
                           THEN Append(ranges, <<start, n - 1>>)
                           ELSE ranges
              /\ start' = IF PageScan[i].is_terms THEN n + 1 ELSE start
    /\ pc' = pc
    /\ UNCHANGED <<itemVars, grpVars, plVars, qtyVars, docVars, batchVars, auxVars>>

\* the loop ends: the last invoice is added and the list returned
Finish ==
    /\ pc = "pages"
    /\ LET out == end_of_input([invoice |-> invoice, invoice_data |-> invoice_data])
       IN  /\ invoice_data' = out
           /\ ranges' = IF Len(out) > Len(invoice_data)
                        THEN Append(ranges, <<start, Len(pages)>>)
                        ELSE ranges
    /\ pc' = "done"
    /\ UNCHANGED <<pages, invoice, start>>
    /\ UNCHANGED <<itemVars, grpVars, plVars, qtyVars, docVars, batchVars, auxVars>>

Init == InvInit /\ ItemIdle /\ GrpIdle /\ PlIdle /\ QtyIdle /\ DocIdle /\ BatchIdle /\ AuxIdle

Next == ProcessPage \/ Finish

Spec == Init /\ [][Next]_vars

\* ------------------------------------------------------------------------
\* InvoiceParser._extract_items applied to a page

ItemsInit ==
    /\ in_text \in {JoinLines(ls) : ls \in SeqsUpTo(ItemLines, MaxLines) \ {<<>>}}
    /\ in_tables \in {Tables3(<<"E", "1">>, <<"D", "1">>, <<"N", "1">>, Date1),
                        Tables4(<<"E", "1">>, <<"D", "1">>, <<"N", "1">>, Date1)}
    /\ out_items = <<>>
    /\ ipc = "call"

ExtractItems ==
    /\ ipc = "call"
    /\ out_items' = _extract_items(in_tables, in_text)
    /\ ipc' = "return"
    /\ UNCHANGED <<in_text, in_tables, invVars, grpVars, plVars, qtyVars, docVars, batchVars, auxVars>>

InitItems == ItemsInit /\ InvIdle /\ GrpIdle /\ PlIdle /\ QtyIdle /\ DocIdle /\ BatchIdle /\ AuxIdle

NextItems == ExtractItems

SpecItems == InitItems /\ [][NextItems]_vars

\* ------------------------------------------------------------------------
\* PackingListParser: items created from matches, then grouped

GroupInit ==
    /\ matches \in SeqsUpTo(ItemMatches, MaxItems)
    /\ all_items = <<>>
    /\ grouped_items = <<>>
    /\ regrouped = <<>>
    /\ gpc = "matched"

\* _extract_items: item = self._create_item_from_match(match) for each match
CreateItems ==
    /\ gpc = "matched"
    /\ all_items' = [i \in DOMAIN matches |-> _create_item_from_match(matches[i])]
    /\ gpc' = "created"
    /\ UNCHANGED <<matches, grouped_items, regrouped, invVars, itemVars, plVars, qtyVars, docVars, batchVars, auxVars>>

\* grouped[key] = item keeps the item object itself, so the sums written to
\* grouped[key].items_qty show in the caller's list too: after the call the
\* first item of each key is the grouped one
FirstOfKey(list, i) ==
    \A j \in 1..(i - 1) : GroupKey(list[j]) # GroupKey(list[i])

ItemsAfterGrouping(list, result) ==
    [i \in DOMAIN list |->
        IF FirstOfKey(list, i)
        THEN CHOOSE g \in Range(result) : GroupKey(g) = GroupKey(list[i])
        ELSE list[i]]

\* parse_pdf: grouped_items = self._group_items_by_ean_batch(all_items)
GroupItems ==
    /\ gpc = "created"
    /\ grouped_items' = _group_items_by_ean_batch(all_items)
    /\ all_items' = ItemsAfterGrouping(all_items, grouped_items')
    /\ gpc' = "grouped"
    /\ UNCHANGED <<matches, regrouped, invVars, itemVars, plVars, qtyVars, docVars, batchVars, auxVars>>

\* the grouping pass run on its own output
GroupAgain ==
    /\ gpc = "grouped"
    /\ regrouped' = _group_items_by_ean_batch(grouped_items)
    /\ grouped_items' = ItemsAfterGrouping(grouped_items, regrouped')
    /\ gpc' = "regrouped"
    /\ UNCHANGED <<matches, all_items, invVars, itemVars, plVars, qtyVars, docVars, batchVars, auxVars>>

GroupNext == CreateItems \/ GroupItems \/ GroupAgain

InitGroup == GroupInit /\ InvIdle /\ ItemIdle /\ PlIdle /\ QtyIdle /\ DocIdle /\ BatchIdle /\ AuxIdle

SpecGroup == InitGroup /\ [][GroupNext]_vars

\* ------------------------------------------------------------------------
\* PackingListParser.parse_pdf as a state machine

PlInit ==
    /\ pl_pages = <<>>
    /\ pl_items = <<>>
    /\ pl_from = <<>>
    /\ pl_ran = <<>>
    /\ pl_out = <<>>
    /\ plpc = "pages"

\* for page_num, page in enumerate(pdf.pages, 1): one iteration; an
\* exception leaves the loop and is raised again as "PDF reading error"
PlReadPage ==
    /\ plpc = "pages"
    /\ Len(pl_pages) < MaxPlPages
    /\ \E i \in DOMAIN PackingPages :
          /\ pl_pages' = Append(pl_pages, i)
          /\ pl_ran' = Append(pl_ran, IF PackingScan[i].has_text
                                      THEN PackingScan[i].found.patterns ELSE <<>>)
          /\ IF PackingScan[i].raises
             THEN /\ plpc' = "raised"
                  /\ UNCHANGED <<pl_items, pl_from>>
             ELSE /\ pl_items' = parse_pdf_page(pl_items, PackingScan[i])
                  /\ pl_from' = pl_from \o [k \in 1..(Len(pl_items') - Len(pl_items)) |->
                                               Len(pl_pages')]
                  /\ plpc' = plpc
    /\ UNCHANGED <<pl_out, invVars, itemVars, grpVars, qtyVars, docVars, batchVars, auxVars>>

\* grouped_items = self._group_items_by_ean_batch(all_items); return
PlGroup ==
    /\ plpc = "pages"
    /\ pl_out' = _group_items_by_ean_batch(pl_items)
    /\ pl_items' = ItemsAfterGrouping(pl_items, pl_out')
    /\ plpc' = "done"
    /\ UNCHANGED <<pl_pages, pl_from, pl_ran, invVars, itemVars, grpVars, qtyVars, docVars, batchVars, auxVars>>

PlNext == PlReadPage \/ PlGroup

InitPacking == PlInit /\ InvIdle /\ ItemIdle /\ GrpIdle /\ QtyIdle /\ DocIdle /\ BatchIdle /\ AuxIdle

SpecPacking == InitPacking /\ [][PlNext]_vars

\* ------------------------------------------------------------------------
\* One run of either parser: InvoiceParser.parse_pdf or
\* PackingListParser.parse_pdf

InitEither == Init \/ InitPacking

NextEither == Next \/ PlNext

SpecEither == InitEither /\ [][NextEither]_vars

\* ------------------------------------------------------------------------
\* PackingListParser._group_items_by_ean_batch, one item at a time

QtyInit ==
    /\ q_items \in SeqsUpTo(QtyItems, MaxQtyItems)
    /\ q_grouped = <<>>
    /\ q_n = 1
    /\ q_result = <<>>
    /\ qpc = "loop"

\* for item in items: one iteration.  The dict holds the first item of a
\* key itself, so the sum written to it shows in the list items too
GroupOne ==
    /\ qpc = "loop"
    /\ q_n <= Len(q_items)
    /\ q_grouped' = GroupStep(q_grouped, q_items[q_n])
    /\ q_items' = [i \in DOMAIN q_items |->
                      IF i <= q_n /\ FirstOfKey(q_items, i)
                      THEN DictGet(q_grouped', GroupKey(q_items[i]))
                      ELSE q_items[i]]
    /\ q_n' = q_n + 1
    /\ UNCHANGED <<q_result, qpc, invVars, itemVars, grpVars, plVars, docVars, batchVars, auxVars>>

\* result = list(grouped.values()); return result
GroupReturn ==
    /\ qpc = "loop"
    /\ q_n > Len(q_items)
    /\ q_result' = DictValues(q_grouped)
    /\ qpc' = "done"
    /\ UNCHANGED <<q_items, q_grouped, q_n, invVars, itemVars, grpVars, plVars, docVars, batchVars, auxVars>>

QtyNext == GroupOne \/ GroupReturn

InitQty == QtyInit /\ InvIdle /\ ItemIdle /\ GrpIdle /\ PlIdle /\ DocIdle /\ BatchIdle /\ AuxIdle

SpecQty == InitQty /\ [][QtyNext]_vars

\* ------------------------------------------------------------------------
\* DocumentParser.parse_document as a state machine: the exists test and
\* the AUTO branch, then the dispatch

DocTypeArgs == {INVOICE, PACKING_LIST, AUTO, NotAType}

DocInit ==
    /\ d_file \in DOMAIN Files
    /\ d_type \in DocTypeArgs
    /\ d_resolved = NoOutcome
    /\ d_outcome = NoOutcome
    /\ dpc = "call"

DocResolve ==
    /\ dpc = "call"
    /\ d_resolved' = ResolveType(Files[d_file].path, d_type)
    /\ d_outcome' = IF d_resolved'.raised THEN d_resolved' ELSE d_outcome
    /\ dpc' = IF d_resolved'.raised THEN "raised" ELSE "resolved"
    /\ UNCHANGED <<d_file, d_type>>
    /\ UNCHANGED <<invVars, itemVars, grpVars, plVars, qtyVars, batchVars, auxVars>>

DocDispatch ==
    /\ dpc = "resolved"
    /\ d_outcome' = Dispatch(Files[d_file].path, d_resolved.value.type, d_type)
    /\ dpc' = IF d_outcome'.raised THEN "raised" ELSE "returned"
    /\ UNCHANGED <<d_file, d_type, d_resolved>>
    /\ UNCHANGED <<invVars, itemVars, grpVars, plVars, qtyVars, batchVars, auxVars>>

DocNext == DocResolve \/ DocDispatch

InitDoc == DocInit /\ InvIdle /\ ItemIdle /\ GrpIdle /\ PlIdle /\ QtyIdle /\ BatchIdle /\ AuxIdle

SpecDoc == InitDoc /\ [][DocNext]_vars

\* ------------------------------------------------------------------------
\* DocumentParser.parse_multiple_documents as a state machine

\* the files of a batch: an invoice, a packing list, a file that does not
\* open
BatchFiles == {1, 3, 8}

PathsOf(files) == [n \in DOMAIN files |-> Files[files[n]].path] \o <<>>

Min(a, b) == IF a < b THEN a ELSE b

BatchInit ==
    /\ b_files \in SeqsUpTo(BatchFiles, MaxBatch)
    /\ b_types \in {OneType(t) : t \in DocTypeArgs}
                   \cup {TypeList(l) : l \in SeqsUpTo(DocTypeArgs, MaxBatch)}
    /\ b_list = <<>>
    /\ b_results = <<>>
    /\ b_n = 1
    /\ b_error = NoOutcome
    /\ bpc = "call"

BatchStart ==
    /\ bpc = "call"
    /\ LET expanded == ExpandTypes(PathsOf(b_files), b_types)
       IN  IF expanded.raised
           THEN /\ b_error' = expanded
                /\ bpc' = "raised"
                /\ UNCHANGED b_list
           ELSE /\ b_list' = expanded.value
                /\ bpc' = "loop"
                /\ UNCHANGED b_error
    /\ UNCHANGED <<b_files, b_types, b_results, b_n>>
    /\ UNCHANGED <<invVars, itemVars, grpVars, plVars, qtyVars, docVars, auxVars>>

\* one iteration over zip(pdf_paths, doc_types)
BatchOne ==
    /\ bpc = "loop"
    /\ b_n <= Min(Len(b_files), Len(b_list))
    /\ b_results' = BatchStep(b_results, Files[b_files[b_n]].path, b_list[b_n])
    /\ b_n' = b_n + 1
    /\ UNCHANGED <<b_files, b_types, b_list, b_error, bpc>>
    /\ UNCHANGED <<invVars, itemVars, grpVars, plVars, qtyVars, docVars, auxVars>>

BatchReturn ==
    /\ bpc = "loop"
    /\ b_n > Min(Len(b_files), Len(b_list))
    /\ bpc' = "done"
    /\ UNCHANGED <<b_files, b_types, b_list, b_results, b_n, b_error>>
    /\ UNCHANGED <<invVars, itemVars, grpVars, plVars, qtyVars, docVars, auxVars>>

BatchNext == BatchStart \/ BatchOne \/ BatchReturn

InitBatch == BatchInit /\ InvIdle /\ ItemIdle /\ GrpIdle /\ PlIdle /\ QtyIdle /\ DocIdle /\ AuxIdle

SpecBatch == InitBatch /\ [][BatchNext]_vars

\* ------------------------------------------------------------------------
\* InvoiceParser._extract_metadata applied to a page

MetaInit ==
    /\ m_tables \in MetaTables
    /\ m_text \in MetaTexts
    /\ m_out = InvoiceData
    /\ mpc = "call"

ExtractMetadata ==
    /\ mpc = "call"
    /\ m_out' = _extract_metadata(m_tables, m_text)
    /\ mpc' = "return"
    /\ UNCHANGED <<m_tables, m_text, mainVars, exportVars, sessVars>>

InitMeta == MetaInit /\ MainIdle /\ ExportIdle /\ SessIdle

NextMeta == ExtractMetadata

SpecMeta == InitMeta /\ [][NextMeta]_vars

\* ------------------------------------------------------------------------
\* One row of create_invoice_sheet or create_packing_list_sheet

ExportInit ==
    /\ e_sheet \in {INVOICE, PACKING_LIST}
    /\ e_date \in ExportDates
    /\ e_date2 \in IF e_sheet = INVOICE THEN {None} ELSE ExpiryDates
    /\ e_code \in ExportCodes
    /\ e_row = [Ref |-> None]
    /\ epc = "call"

ExportInvoiceRow ==
    /\ epc = "call"
    /\ e_sheet = INVOICE
    /\ e_row' = InvoiceRow(e_date, e_code)
    /\ epc' = "return"
    /\ UNCHANGED <<e_sheet, e_date, e_date2, e_code, mainVars, metaVars, sessVars>>

ExportPackingRow ==
    /\ epc = "call"
    /\ e_sheet = PACKING_LIST
    /\ e_row' = PackingRow(e_code, e_date, e_date2)
    /\ epc' = "return"
    /\ UNCHANGED <<e_sheet, e_date, e_date2, e_code, mainVars, metaVars, sessVars>>

InitExport == ExportInit /\ MainIdle /\ MetaIdle /\ SessIdle

NextExport == ExportInvoiceRow \/ ExportPackingRow

SpecExport == InitExport /\ [][NextExport]_vars

\* ------------------------------------------------------------------------
\* A process that calls parse_invoice_pdf and parse_packing_list_pdf one
\* call after another

\* "in/2024 CI.pdf", "PL-7.PDF", "missing.pdf" and "late.pdf"
SessionFiles == {1, 3, 9, 13}

SessionCalls ==
    {[path |-> Files[f].path, type |-> t, debug |-> d] :
        f \in SessionFiles, t \in {INVOICE, PACKING_LIST}, d \in BOOLEAN}

SessInit ==
    /\ s_process = FreshProcess
    /\ s_calls = <<>>
    /\ s_results = <<>>
    /\ spc = "ready"

\* one call, from the parser's construction to its return or its exception
CallParser ==
    /\ spc = "ready"
    /\ Len(s_calls) < MaxCalls
    /\ \E call \in SessionCalls :
          LET done == ParserCall(s_process, call)
          IN  /\ s_calls' = Append(s_calls, call)
              /\ s_results' = Append(s_results, done.outcome)
              /\ s_process' = done.process
    /\ spc' = spc
    /\ UNCHANGED <<mainVars, metaVars, exportVars>>

InitSession == SessInit /\ MainIdle /\ MetaIdle /\ ExportIdle

NextSession == CallParser

SpecSession == InitSession /\ [][NextSession]_vars

\* ------------------------------------------------------------------------
\* Properties of the invoice page accumulation (Spec)

\* the page read at position q, as parse_pdf sees it
PageAt(q) == PageScan[pages[q]]

IsMarker(q) == PageAt(q).is_terms

IsContent(q) == PageAt(q).has_text /\ ~ PageAt(q).is_terms

HasNumber(q) == IsContent(q) /\ Truthy(PageAt(q).metadata.invoice_number)

\* the pages a..b are those between one marker page (or the start of the
\* input) and the marker page (or the end of the input) that closes a record
ClosedRange(a, b) ==
    /\ 1 <= a /\ a <= b + 1 /\ b <= Len(pages)
    /\ a = 1 \/ IsMarker(a - 1)
    /\ \A q \in a..b : ~ IsMarker(q)
    /\ IF b = Len(pages) THEN pc = "done" ELSE IsMarker(b + 1)

\* a step of the loop that read one more page
ReadsPage == Len(pages') = Len(pages) + 1

\* C1: every item of an emitted record was extracted from a non-marker page
\* between the previous marker page (or the start of the input) and the
\* marker page (or the end of the input) that closed the record; pages
\* [A, marker, B] with an invoice number on A and on B give exactly two
\* records, the first with A's items and the second with B's items only.
C1_ItemsFromOwnPageRange ==
    /\ Len(ranges) = Len(invoice_data)
    /\ \A k \in DOMAIN invoice_data :
          /\ ClosedRange(ranges[k][1], ranges[k][2])
          /\ k > 1 => ranges[k - 1][2] + 2 <= ranges[k][1]
          /\ \A e \in Range(invoice_data[k].items) :
                \E q \in ranges[k][1]..ranges[k][2] :
                    IsContent(q) /\ e \in Range(PageAt(q).items)
    /\ (pc = "done" /\ Len(pages) = 3 /\ HasNumber(1) /\ IsMarker(2) /\ HasNumber(3))
          => /\ Len(invoice_data) = 2
             /\ invoice_data[1].items = PageAt(1).items
             /\ invoice_data[2].items = PageAt(3).items

\* pages [A, marker, B]: two records, each with items, A's and B's different
C1_Witness ==
    /\ pc = "done" /\ Len(pages) = 3
    /\ HasNumber(1) /\ IsMarker(2) /\ HasNumber(3)
    /\ Len(invoice_data) = 2
    /\ PageAt(1).items # <<>> /\ PageAt(3).items # <<>>
    /\ \A e \in Range(PageAt(1).items) : e \notin Range(PageAt(3).items)
    /\ invoice_data[2].items = PageAt(3).items

\* a step that closes a record: a marker page is read, or the input ends
ClosesRecord ==
    \/ ReadsPage /\ PageScan[pages'[Len(pages')]].is_terms
    \/ pc = "pages" /\ pc' = "done"

C2_Step ==
    IF ClosesRecord
    THEN invoice_data' = IF Truthy(invoice.invoice_number)
                         THEN Append(invoice_data, invoice)
                         ELSE invoice_data
    ELSE invoice_data' = invoice_data

\* C2: every record of the output list has a non-empty invoice number; at a
\* marker page and at the end of the input the in-progress record is emitted
\* if and only if its invoice number is non-empty at that moment, otherwise
\* it is dropped and the run goes on; no other step changes the output list.
C2_EmittedIffNumbered ==
    /\ [](\A k \in DOMAIN invoice_data : Truthy(invoice_data[k].invoice_number))
    /\ [][C2_Step]_vars

\* the pages before the marker gave no invoice number and were dropped, the
\* page after it was emitted at the end of the input
C2_Witness ==
    /\ pc = "done" /\ Len(pages) = 3
    /\ IsContent(1) /\ ~ HasNumber(1) /\ PageAt(1).items # <<>>
    /\ IsMarker(2) /\ HasNumber(3)
    /\ Len(invoice_data) = 1
    /\ ranges = << <<3, 3>> >>

C3_Step ==
    ReadsPage =>
        IF PageScan[pages'[Len(pages')]].is_terms
        THEN /\ invoice'.shipment_number = None
             /\ invoice'.total_quantity = None
        ELSE /\ invoice.shipment_number # None
                    => invoice'.shipment_number = invoice.shipment_number
             /\ invoice.total_quantity # None
                    => invoice'.total_quantity = invoice.total_quantity

\* C3: once the shipment reference (the total quantity) of a record is set,
\* no later page of the same invoice changes it, whether that page extracts
\* another value or none; the record started after a marker page has both
\* unset.
C3_FirstWriteWins == [][C3_Step]_vars

\* three pages of one invoice: the first sets both fields, the second
\* extracts other values, the third extracts none; the first values stand
C3_Witness ==
    /\ Len(pages) = 3 /\ \A q \in 1..3 : IsContent(q)
    /\ PageAt(1).metadata.shipment_number # None
    /\ PageAt(1).metadata.total_quantity # None
    /\ PageAt(2).metadata.shipment_number
          \notin {None, PageAt(1).metadata.shipment_number}
    /\ PageAt(2).metadata.total_quantity
          \notin {None, PageAt(1).metadata.total_quantity}
    /\ PageAt(3).metadata.shipment_number = None
    /\ PageAt(3).metadata.total_quantity = None
    /\ invoice.shipment_number = PageAt(1).metadata.shipment_number
    /\ invoice.total_quantity = PageAt(1).metadata.total_quantity

\* C4: after a non-marker page with text is processed, the EDI reference,
\* delivery reference, invoice number and invoice date of the in-progress
\* record are the values extracted from that page.
C4_HeaderFieldsFromLastPage ==
    (pages # <<>> /\ IsContent(Len(pages))) =>
        LET metadata == PageAt(Len(pages)).metadata
        IN  /\ invoice.edi_number = metadata.edi_number
            /\ invoice.delivery_number = metadata.delivery_number
            /\ invoice.invoice_number = metadata.invoice_number
            /\ invoice.invoice_date = metadata.invoice_date

\* two pages of one invoice with four different header values: the record
\* holds the second page's
C4_Witness ==
    /\ Len(pages) = 2 /\ IsContent(1) /\ IsContent(2)
    /\ LET m1 == PageAt(1).metadata
           m2 == PageAt(2).metadata
       IN  /\ None \notin {m1.edi_number, m1.delivery_number,
                           m1.invoice_number, m1.invoice_date}
           /\ None \notin {m2.edi_number, m2.delivery_number,
                           m2.invoice_number, m2.invoice_date}
           /\ m1.edi_number # m2.edi_number
           /\ m1.delivery_number # m2.delivery_number
           /\ m1.invoice_number # m2.invoice_number
           /\ m1.invoice_date # m2.invoice_date
           /\ invoice.invoice_number = m2.invoice_number

\* the dict d holds each EAN once, every item under its own EAN
OneItemPerEan(d) ==
    /\ \A i, j \in DOMAIN d : d[i].k = d[j].k => i = j
    /\ \A i \in DOMAIN d : d[i].v.ean_number = d[i].k

\* on every page, the item kept under an EAN is the one parsed from the last
\* line of the page that gives an item with that EAN
LastLineWins ==
    \A i \in DOMAIN PdfPages :
        Truthy(PdfPages[i].text) =>
            LET lines  == PotentialLines(PdfPages[i].text)
                parsed == [n \in DOMAIN lines |-> _parse_item_line(lines[n])]
            IN  \A e \in Range(PageScan[i].items) :
                    \E n \in DOMAIN parsed :
                        /\ parsed[n] = e.v
                        /\ \A m \in (n + 1)..Len(parsed) :
                              parsed[m] # NoItem => parsed[m].ean_number # e.k

\* the pages with more lines that give an item than items
RepeatingPages ==
    {i \in DOMAIN PdfPages :
        /\ Truthy(PdfPages[i].text)
        /\ PageScan[i].items # <<>>
        /\ Len(SelectSeq(PotentialLines(PdfPages[i].text),
                         LAMBDA l : _parse_item_line(l) # NoItem))
              > Len(PageScan[i].items)}

C5_Step ==
    (ReadsPage /\ ~ PageScan[pages'[Len(pages')]].is_terms
               /\ PageScan[pages'[Len(pages')]].has_text) =>
        LET page_items == PageScan[pages'[Len(pages')]].items
        IN  /\ DictKeys(invoice'.items)
                  = DictKeys(invoice.items) \cup DictKeys(page_items)
            /\ \A e \in Range(invoice'.items) :
                  IF e.k \in DictKeys(page_items)
                  THEN e.v = DictGet(page_items, e.k)
                  ELSE e \in Range(invoice.items)

\* C5: the item map of a record holds at most one item per EAN; a later line
\* with an EAN already present, on the same page or on a later page of the
\* same invoice, replaces the earlier item (no summing), and the items under
\* all other EANs stay as they were.
C5_LastItemPerEanWins ==
    /\ [](/\ OneItemPerEan(invoice.items)
          /\ \A k \in DOMAIN invoice_data : OneItemPerEan(invoice_data[k].items)
          /\ LastLineWins)
    /\ [][C5_Step]_vars

\* two pages of one invoice: the first repeats an EAN on two of its lines,
\* the second carries one of the first page's EANs with another item, which
\* replaced the first page's; another EAN of the first page kept its item
C5_Witness ==
    /\ Len(pages) = 2 /\ IsContent(1) /\ IsContent(2)
    /\ \E e \in Range(invoice.items) :
          /\ e.k \in DictKeys(PageAt(1).items) \cap DictKeys(PageAt(2).items)
          /\ e.v = DictGet(PageAt(2).items, e.k)
          /\ e.v # DictGet(PageAt(1).items, e.k)
    /\ \E e \in Range(invoice.items) :
          /\ e.k \notin DictKeys(PageAt(2).items)
          /\ e.v = DictGet(PageAt(1).items, e.k)
    /\ pages[1] \in RepeatingPages

C6_Step ==
    (ReadsPage /\ PageScan[pages'[Len(pages')]].is_terms) =>
        /\ invoice' = InvoiceData
        /\ invoice_data' \in {invoice_data, Append(invoice_data, invoice)}

\* C6: a page whose text contains "GENERAL TERMS OF SALE" contributes nothing
\* of its own: the record it closes is the in-progress record as it was
\* before the page, and the record opened after it starts empty, even when
\* the page carries metadata and well-formed item lines.
C6_MarkerPageContributesNothing == [][C6_Step]_vars

\* [A, marker with metadata and an item line, B]: two records, neither with
\* the marker page's item or its header and shipment values
C6_Witness ==
    /\ pc = "done" /\ Len(pages) = 3
    /\ HasNumber(1) /\ IsMarker(2) /\ HasNumber(3)
    /\ PageAt(2).items # <<>>
    /\ PageAt(2).metadata.invoice_number # None
    /\ PageAt(2).metadata.shipment_number # None
    /\ Len(invoice_data) = 2
    /\ \A k \in 1..2 :
          /\ \A e \in Range(PageAt(2).items) : e \notin Range(invoice_data[k].items)
          /\ invoice_data[k].invoice_number # PageAt(2).metadata.invoice_number
          /\ invoice_data[k].shipment_number # PageAt(2).metadata.shipment_number

\* ------------------------------------------------------------------------
\* Properties of the invoice item extraction (SpecItems)

\* the dict entry e is the item built from the two matches of the line l
ItemOfLine(e, l) ==
    /\ ean_line(l)
    /\ item_step1(l).matched
    /\ item_step2(l).matched
    /\ e.v = InvoiceItemOf(item_step1(l), item_step2(l))
    /\ e.k = e.v.ean_number

\* the item has a 13-digit EAN, a two-letter country and a product code
ItemIsSet(item) ==
    /\ Len(item.ean_number) = EanLen
    /\ \A k \in DOMAIN item.ean_number : item.ean_number[k] \in Digit
    /\ item.country # None /\ Len(item.country) = 2
    /\ \A k \in DOMAIN item.country : item.country[k] \in Upper
    /\ item.product_code # None /\ item.product_code # <<>>

\* C7 as stated: an item comes only from a line of the page text that starts
\* with 13 digits and matches both stages, and a page with no line that
\* starts with 13 digits gives no item.
C7_AsStated ==
    ipc = "return" =>
        LET lines == split(in_text)
        IN  /\ \A e \in Range(out_items) :
                  /\ \E n \in DOMAIN lines : ItemOfLine(e, lines[n])
                  /\ ItemIsSet(e.v)
            /\ (\A n \in DOMAIN lines : ~ ean_line(lines[n])) => out_items = <<>>

\* C7 (amended): an item comes only from a line that, with the blanks around
\* it stripped, starts with 13 digits and matches both stages; a page with no
\* such line gives no item, a line that passes stage 1 and fails stage 2
\* gives none, and every item has its EAN, country and product code set.
C7_ItemsOnlyFromFullMatches ==
    ipc = "return" =>
        LET lines == split(in_text)
        IN  /\ \A e \in Range(out_items) :
                  /\ \E n \in DOMAIN lines : ItemOfLine(e, strip(lines[n]))
                  /\ ItemIsSet(e.v)
            /\ (\A n \in DOMAIN lines : ~ ean_line(strip(lines[n])))
                  => out_items = <<>>
            /\ (\A n \in DOMAIN lines :
                    ~ (item_step1(strip(lines[n])).matched
                       /\ item_step2(strip(lines[n])).matched))
                  => out_items = <<>>

\* a page of two lines: one passes stage 1 and fails stage 2, the other is
\* a full item line with blanks around it; the one item is the latter's
C7_Witness ==
    /\ ipc = "return"
    /\ Len(out_items) = 1
    /\ LET lines == split(in_text)
       IN  /\ Len(lines) = 2
           /\ \E n \in DOMAIN lines :
                 /\ ean_line(strip(lines[n]))
                 /\ item_step1(strip(lines[n])).matched
                 /\ ~ item_step2(strip(lines[n])).matched
           /\ \E n \in DOMAIN lines :
                 /\ lines[n] # strip(lines[n])
                 /\ ItemOfLine(out_items[1], strip(lines[n]))

\* ------------------------------------------------------------------------
\* Properties of the packing-list grouping (SpecGroup)

\* the (EAN, batch) pair and the quantity extracted from the i-th match
MatchKey(i) == <<matches[i].g6, matches[i].g7>>

MatchQty(i) == remove_commas(matches[i].g5)

ItemKey(item) == <<item.ean, item.batch>>

MatchKeys == {MatchKey(i) : i \in DOMAIN matches}

\* every extracted quantity is the text of an integer
AllQuantitiesParse == \A i \in DOMAIN matches : ~ IntRaises(MatchQty(i))

\* the sum of the quantities of the first n matches with the pair key
RECURSIVE SumOfKey(_, _)
SumOfKey(key, n) ==
    IF n = 0 THEN 0
    ELSE SumOfKey(key, n - 1)
           + (IF MatchKey(n) = key THEN int(MatchQty(n)) ELSE 0)

Grouped == gpc \in {"grouped", "regrouped"}

\* C8: when every extracted quantity parses as an integer, the grouped list
\* holds exactly one item per distinct (EAN, batch) pair of the input, and its
\* quantity is the sum of the quantities of the input items with that pair;
\* two items with one pair and quantities "1,008" and "42" give one item with
\* quantity "1050".
C8_GroupedQuantityIsSum ==
    (Grouped /\ AllQuantitiesParse) =>
        /\ Len(grouped_items) = Cardinality(MatchKeys)
        /\ \A key \in MatchKeys :
              \E i \in DOMAIN grouped_items :
                  /\ ItemKey(grouped_items[i]) = key
                  /\ ~ IntRaises(grouped_items[i].items_qty)
                  /\ int(grouped_items[i].items_qty) = SumOfKey(key, Len(matches))
        /\ (/\ Len(matches) = 2
            /\ MatchKey(1) = MatchKey(2)
            /\ matches[1].g5 = <<"1", ",", "0", "0", "8">>
            /\ matches[2].g5 = <<"4", "2">>)
              => /\ Len(grouped_items) = 1
                 /\ grouped_items[1].items_qty = <<"1", "0", "5", "0">>

\* the two items with quantities "1,008" and "42" grouped into one of "1050"
C8_Witness ==
    /\ gpc = "grouped"
    /\ Len(matches) = 2
    /\ MatchKey(1) = MatchKey(2)
    /\ matches[1].g5 = <<"1", ",", "0", "0", "8">>
    /\ matches[2].g5 = <<"4", "2">>
    /\ AllQuantitiesParse
    /\ Len(grouped_items) = 1
    /\ grouped_items[1].items_qty = <<"1", "0", "5", "0">>

C9_Step ==
    (gpc = "grouped" /\ gpc' = "regrouped") =>
        /\ regrouped' = grouped_items
        /\ grouped_items' = grouped_items

\* C9: the grouping pass applied to its own output returns a list with the
\* same keys, in the same order, with the same quantities, and leaves the
\* items it was given as they were.
C9_GroupingIsIdempotent == [][C9_Step]_vars

\* three items, two of them merged by the first pass, grouped a second time
C9_Witness ==
    /\ gpc = "regrouped"
    /\ Len(matches) = 3
    /\ Len(grouped_items) = 2
    /\ \E i \in 1..2 : grouped_items[i].items_qty \notin {MatchQty(j) : j \in 1..3}
    /\ regrouped = grouped_items

\* the pairs of the input in the order of their first occurrence
FirstSeenKeys ==
    LET firsts == SelectSeq([i \in DOMAIN matches |-> i],
                            LAMBDA i : \A j \in 1..(i - 1) : MatchKey(j) # MatchKey(i))
    IN  [n \in DOMAIN firsts |-> MatchKey(firsts[n])]

\* C10: the grouped list holds the distinct (EAN, batch) pairs in the order
\* of their first occurrence in the input, however many later items were
\* merged into each.
C10_FirstSeenOrder ==
    Grouped =>
        [n \in DOMAIN grouped_items |-> ItemKey(grouped_items[n])] = FirstSeenKeys

\* the third item was merged into the first, which stays before the second
C10_Witness ==
    /\ gpc = "grouped"
    /\ Len(matches) = 3
    /\ MatchKey(1) = MatchKey(3)
    /\ MatchKey(1) # MatchKey(2)
    /\ Len(grouped_items) = 2
    /\ ItemKey(grouped_items[1]) = MatchKey(1)
    /\ grouped_items[1].items_qty # MatchQty(1)
    /\ ItemKey(grouped_items[2]) = MatchKey(2)

\* ------------------------------------------------------------------------
\* C11: in the grouped packing-list output every field of a kept item other
\* than the quantity (HS code, brand, SKU, description, dates, country,
\* dangerous-goods flag and the page-level EDI, order and shipment
\* references) equals that of the first input item with its key; later
\* duplicates change nothing but the quantity.

SameButQuantity(g, f) ==
    /\ g.edi_number = f.edi_number
    /\ g.order_number = f.order_number
    /\ g.shipment_number = f.shipment_number
    /\ g.hs_code = f.hs_code
    /\ g.brand = f.brand
    /\ g.sku = f.sku
    /\ g.description = f.description
    /\ g.ean = f.ean
    /\ g.batch = f.batch
    /\ g.mfg_date = f.mfg_date
    /\ g.exp_date = f.exp_date
    /\ g.coo = f.coo
    /\ g.dg = f.dg

C11_Step ==
    (plpc = "pages" /\ plpc' = "done") =>
        \A n \in DOMAIN pl_out' :
            \E k \in DOMAIN pl_items :
                /\ FirstOfKey(pl_items, k)
                /\ GroupKey(pl_items[k]) = GroupKey(pl_out'[n])
                /\ SameButQuantity(pl_out'[n], pl_items[k])

C11_OtherFieldsFromFirstOccurrence == [][C11_Step]_vars

\* a grouped document in which a later duplicate differs from the first
\* item of its key in the references and in the item fields, and the kept
\* item holds the sum 1008 + 42
C11_Witness ==
    /\ plpc = "done"
    /\ \E k \in DOMAIN pl_items, j \in DOMAIN pl_items :
          /\ k < j
          /\ FirstOfKey(pl_items, k)
          /\ GroupKey(pl_items[j]) = GroupKey(pl_items[k])
          /\ pl_items[j].edi_number # pl_items[k].edi_number
          /\ pl_items[j].order_number # pl_items[k].order_number
          /\ pl_items[j].sku # pl_items[k].sku
          /\ pl_items[j].coo # pl_items[k].coo
          /\ pl_items[k] \in Range(pl_out)
          /\ pl_items[k].items_qty = <<"1", "0", "5", "0">>

\* ------------------------------------------------------------------------
\* C12: if converting the kept item's quantity or a duplicate's quantity to
\* an integer fails during grouping, the kept item's quantity is left
\* exactly as it was, the duplicate is still discarded, grouping continues
\* with the remaining items and no error is raised.

\* int() is called on a quantity that is set and not empty
ConversionFails(kept, item) ==
    \/ (kept.items_qty # None /\ kept.items_qty # <<>> /\ IntRaises(kept.items_qty))
    \/ (item.items_qty # None /\ item.items_qty # <<>> /\ IntRaises(item.items_qty))

FailingStep ==
    /\ qpc = "loop"
    /\ q_n <= Len(q_items)
    /\ GroupKey(q_items[q_n]) \in DictKeys(q_grouped)
    /\ ConversionFails(DictGet(q_grouped, GroupKey(q_items[q_n])), q_items[q_n])

C12_Step ==
    FailingStep =>
        /\ q_grouped' = q_grouped
        /\ q_items' = q_items
        /\ q_n' = q_n + 1
        /\ qpc' = "loop"

C12_FailedConversionKeepsQuantity == [][C12_Step]_vars

\* "5", "12A", "5" with one key: the second conversion failed, the third
\* item was still summed, and the list returned holds one item with "10"
C12_Witness ==
    /\ qpc = "done"
    /\ Len(q_items) = 3
    /\ \A i \in 2..3 : GroupKey(q_items[i]) = GroupKey(q_items[1])
    /\ q_items[2].items_qty = <<"1", "2", "A">>
    /\ q_items[3].items_qty = <<"5">>
    /\ Len(q_result) = 1
    /\ q_result[1].items_qty = <<"1", "0">>

\* ------------------------------------------------------------------------
\* C13: on each packing-list page the fallback pattern is applied if and
\* only if the primary pattern produced zero items on that page; the items
\* of one page never mix primary-pattern and fallback-pattern matches, and
\* the decision is made per page, not per document.

\* the items each pattern yields on each page of PackingPages
PrimaryOfPage ==
    <<ItemsOfPattern(item_line, PackingPages[1]), ItemsOfPattern(item_line, PackingPages[2]),
      ItemsOfPattern(item_line, PackingPages[3]), ItemsOfPattern(item_line, PackingPages[4]),
      ItemsOfPattern(item_line, PackingPages[5]), ItemsOfPattern(item_line, PackingPages[6])>>

FallbackOfPage ==
    <<ItemsOfPattern(item_line_flexible, PackingPages[1]),
      ItemsOfPattern(item_line_flexible, PackingPages[2]),
      ItemsOfPattern(item_line_flexible, PackingPages[3]),
      ItemsOfPattern(item_line_flexible, PackingPages[4]),
      ItemsOfPattern(item_line_flexible, PackingPages[5]),
      ItemsOfPattern(item_line_flexible, PackingPages[6])>>

\* the items without the page references stamped on them
Unstamped(list) ==
    [i \in DOMAIN list |->
        [list[i] EXCEPT !.edi_number = None, !.order_number = None,
                        !.shipment_number = None]] \o <<>>

\* a page with text is read: i is the page, added the items it contributed
C13_Step ==
    (plpc = "pages" /\ plpc' = "pages" /\ Len(pl_pages') = Len(pl_pages) + 1) =>
        LET i     == pl_pages'[Len(pl_pages')]
            ran   == pl_ran'[Len(pl_ran')]
            added == SubSeq(pl_items', Len(pl_items) + 1, Len(pl_items'))
        IN  i \in DOMAIN PrimaryOfPage =>
              /\ ran[1] = "item_line"
              /\ ("item_line_flexible" \in Range(ran)) <=> (PrimaryOfPage[i] = <<>>)
              /\ Unstamped(added) = IF PrimaryOfPage[i] # <<>> THEN PrimaryOfPage[i]
                                    ELSE FallbackOfPage[i]
              /\ \/ \A k \in DOMAIN added : Unstamped(added)[k] \in Range(PrimaryOfPage[i])
                 \/ /\ PrimaryOfPage[i] = <<>>
                    /\ \A k \in DOMAIN added : Unstamped(added)[k] \in Range(FallbackOfPage[i])

C13_FallbackIffPrimaryEmpty == [][C13_Step]_vars

\* three pages read: the first yields items by the primary pattern alone,
\* the second has no primary match and yields an item by the fallback, the
\* third yields its one primary item although the fallback finds two there
C13_Witness ==
    /\ Len(pl_pages) = 3
    /\ pl_ran = <<<<"item_line">>, <<"item_line", "item_line_flexible">>, <<"item_line">>>>
    /\ \A n \in 1..3 : n \in Range(pl_from)
    /\ PrimaryOfPage[pl_pages[2]] = <<>>
    /\ Len(FallbackOfPage[pl_pages[3]]) > Len(PrimaryOfPage[pl_pages[3]])
    /\ Cardinality({k \in DOMAIN pl_from : pl_from[k] = 3})
          = Len(PrimaryOfPage[pl_pages[3]])

\* ------------------------------------------------------------------------
\* C14: every packing-list item extracted from a page carries that page's
\* EDI reference, order reference and shipment reference (unset where the
\* page lacks the pattern) and never a value taken from another page of the
\* document.

\* the references written on each page of PackingPages
ReferencesOfPage ==
    <<[edi_number |-> <<"E", "D", "1">>, order_number |-> <<"4", "5">>,
       shipment_number |-> <<"7", "7">>],
      [edi_number |-> <<"e", "d", "2">>, order_number |-> <<"4", "6">>,
       shipment_number |-> <<"7", "8">>],
      [edi_number |-> None, order_number |-> None, shipment_number |-> None],
      [edi_number |-> <<"E", "D", "1">>, order_number |-> <<"4", "5">>,
       shipment_number |-> <<"7", "7">>],
      [edi_number |-> None, order_number |-> <<"4", "6">>, shipment_number |-> None],
      [edi_number |-> <<"e", "d", "2">>, order_number |-> None,
       shipment_number |-> <<"7", "8">>]>>

C14_ItemsCarryOwnPageReferences ==
    \A k \in DOMAIN pl_items :
        LET refs == ReferencesOfPage[pl_pages[pl_from[k]]]
        IN  /\ pl_items[k].edi_number = refs.edi_number
            /\ pl_items[k].order_number = refs.order_number
            /\ pl_items[k].shipment_number = refs.shipment_number

\* items of three pages: full references, other full references, and a
\* page without any reference after them, whose item has all three unset
C14_Witness ==
    /\ Len(pl_pages) = 3
    /\ \E a \in DOMAIN pl_items, b \in DOMAIN pl_items, c \in DOMAIN pl_items :
          /\ pl_from[a] = 1 /\ pl_from[b] = 2 /\ pl_from[c] = 3
          /\ pl_items[a].edi_number = <<"E", "D", "1">>
          /\ pl_items[b].edi_number = <<"e", "d", "2">>
          /\ pl_items[b].order_number = <<"4", "6">>
          /\ pl_items[b].shipment_number = <<"7", "8">>
          /\ pl_items[c].edi_number = None
          /\ pl_items[c].order_number = None
          /\ pl_items[c].shipment_number = None

\* ------------------------------------------------------------------------
\* word occurs in text
Occurs(word, text) ==
    \E from \in 1..(Len(text) - Len(word) + 1) :
        SubSeq(text, from, from + Len(word) - 1) = word

\* the lower-cased file name of the call
CalledName == lower(basename(Files[d_file].path))

NamedInvoice == \E k \in DOMAIN InvoiceNameKeywords : Occurs(InvoiceNameKeywords[k], CalledName)

NamedPacking == \E k \in DOMAIN PackingNameKeywords : Occurs(PackingNameKeywords[k], CalledName)

\* the call asked for AUTO and the classifier has answered
Classified == dpc \in {"resolved", "returned", "raised"} /\ d_type = AUTO /\ ~ d_resolved.raised

\* C15: when the lower-cased file name contains an invoice keyword the
\* classifier answers INVOICE without opening the file, also when the name
\* contains a packing-list keyword as well; otherwise, when it contains a
\* packing-list keyword, it answers PACKING_LIST without opening the file.
C15_NameKeywordDecides ==
    Classified =>
        /\ NamedInvoice =>
              d_resolved.value.type = INVOICE /\ ~ d_resolved.value.opened
        /\ (~ NamedInvoice /\ NamedPacking) =>
              d_resolved.value.type = PACKING_LIST /\ ~ d_resolved.value.opened

\* "out/pack_ci.pdf" has keywords of both families and is an INVOICE; the
\* file was not opened
C15_Witness ==
    /\ Classified
    /\ d_file = 2
    /\ NamedInvoice /\ NamedPacking
    /\ d_resolved.value.type = INVOICE
    /\ ~ d_resolved.value.opened

\* ------------------------------------------------------------------------
\* the first page of the file of the call can be read
FirstPageRead ==
    /\ Files[d_file].opens
    /\ Files[d_file].pages # <<>>
    /\ DocPages[Files[d_file].pages[1]].text # Unreadable

\* its text in capitals, a page without text being empty
FirstPageUpper ==
    IF DocPages[Files[d_file].pages[1]].text = None THEN <<>>
    ELSE upper(DocPages[Files[d_file].pages[1]].text)

KeywordsOnFirstPage(keywords) ==
    Cardinality({k \in DOMAIN keywords : Occurs(keywords[k], FirstPageUpper)})

FamilyByContent ==
    IF ~ FirstPageRead THEN INVOICE
    ELSE IF KeywordsOnFirstPage(invoice_keywords) > KeywordsOnFirstPage(packing_keywords)
    THEN INVOICE
    ELSE IF KeywordsOnFirstPage(packing_keywords) > KeywordsOnFirstPage(invoice_keywords)
    THEN PACKING_LIST
    ELSE INVOICE

\* C16: when the file name has no keyword the classifier answers the family
\* with strictly more of its keywords in the first page's text in capitals,
\* and INVOICE on equal scores, for a file without pages and when the first
\* page cannot be read; it does not raise, and its answer is INVOICE or
\* PACKING_LIST, never AUTO.
C16_ContentScoreDecides ==
    (dpc # "call" /\ d_type = AUTO /\ Files[d_file].exists) =>
        /\ ~ d_resolved.raised
        /\ d_resolved.value.type \in {INVOICE, PACKING_LIST}
        /\ (~ NamedInvoice /\ ~ NamedPacking) =>
              d_resolved.value.type = FamilyByContent

\* "invoice/doc1.pdf": no keyword in the name, and a first page with
\* PACKING LIST, CONSIGNEE and VESSEL and no invoice keyword
C16_Witness ==
    /\ Classified
    /\ d_file = 4
    /\ ~ NamedInvoice /\ ~ NamedPacking
    /\ FirstPageRead
    /\ KeywordsOnFirstPage(invoice_keywords) = 0
    /\ KeywordsOnFirstPage(packing_keywords) > 0
    /\ d_resolved.value.type = PACKING_LIST

\* ------------------------------------------------------------------------
\* source n of the batch parsed on its own
Alone(n) == parse_document(Files[b_files[n]].path, b_list[n])

\* entry n of the results is what source n gives on its own: its result,
\* or an error entry with its failure
EntryAsAlone(n) ==
    /\ b_results[n].file_path = Files[b_files[n]].path
    /\ IF Alone(n).raised
       THEN /\ b_results[n].document_type = "error"
            /\ b_results[n].count = 0
            /\ b_results[n].data = None
            /\ b_results[n].error = Alone(n).error
       ELSE b_results[n] = Alone(n).value

\* C17: a batch of N sources whose type argument is accepted returns N
\* entries in the order of the sources, entry i with the path of source i;
\* a source whose parse raises gets an entry tagged "error" with count 0,
\* no data and the failure, and every other entry is the result that
\* source gives on its own.
C17_OneEntryPerSource ==
    /\ bpc = "loop" => Len(b_results) = b_n - 1
    /\ bpc = "done" => Len(b_results) = Len(b_files)
    /\ bpc \in {"loop", "done"} => \A n \in DOMAIN b_results : EntryAsAlone(n)

\* three sources of which the second does not open: three entries, the
\* second an error, the first and the third with their records
C17_Witness ==
    /\ bpc = "done"
    /\ b_files = <<1, 8, 3>>
    /\ b_types = OneType(AUTO)
    /\ Len(b_results) = 3
    /\ b_results[1].document_type = "invoice" /\ b_results[1].count = 2
    /\ b_results[2].document_type = "error" /\ b_results[2].count = 0
    /\ b_results[2].error.text = "PDF reading error: "
    /\ b_results[3].document_type = "packing_list" /\ b_results[3].count = 2

\* ------------------------------------------------------------------------
\* the batch was called with a list of another length than the paths
LengthMismatch == ~ b_types.single /\ Len(b_types.list) # Len(b_files)

\* C18: a batch called with a list of types of another length than the
\* list of paths raises before any source is parsed and returns no
\* results, not even partial ones; a batch called with a single type
\* parses every source as that type.
C18_MismatchRejectedSingleTypeShared ==
    /\ (bpc # "call" /\ LengthMismatch) =>
           /\ bpc = "raised"
           /\ b_error.raised /\ b_error.kind = "ValueError"
           /\ b_results = <<>> /\ b_n = 1
    /\ (bpc \in {"loop", "done"} /\ b_types.single) =>
           /\ Len(b_list) = Len(b_files)
           /\ \A n \in DOMAIN b_list : b_list[n] = b_types.type
           /\ \A n \in DOMAIN b_results :
                 BatchStep(<<>>, Files[b_files[n]].path, b_types.type) = <<b_results[n]>>

\* three paths and two types: the call has raised with nothing parsed
C18_Witness ==
    /\ bpc = "raised"
    /\ b_files = <<1, 3, 1>>
    /\ b_types = TypeList(<<INVOICE, PACKING_LIST>>)
    /\ b_error.error.text = "doc_types list must match pdf_paths length"
    /\ b_results = <<>>

\* ------------------------------------------------------------------------
\* the batch was called with a type that is no family: as the single type,
\* or as an element of the list
UnknownTypeGiven ==
    IF b_types.single THEN b_types.type = NotAType
    ELSE \E n \in DOMAIN b_types.list : b_types.list[n] = NotAType

\* C19: a document type that is neither known family makes the call raise
\* to the caller at once: no source is parsed and no result entry is
\* produced. Stated for the batch entry: once the call has started it has
\* raised, and the results are empty.
C19_UnknownTypeRejectsBatch ==
    (UnknownTypeGiven /\ bpc # "call") => (bpc = "raised" /\ b_results = <<>>)

\* ------------------------------------------------------------------------
\* the family the classifier is to answer for the file of the call
FamilyOfCalled ==
    IF NamedInvoice THEN INVOICE
    ELSE IF NamedPacking THEN PACKING_LIST
    ELSE FamilyByContent

\* the records of the pipeline of a family on the file of the call
RecordsOf(family) ==
    IF family = INVOICE THEN parse_invoice_pdf(Files[d_file].path).value
    ELSE parse_packing_list_pdf(Files[d_file].path).value

\* C20: the result of a call that returns is tagged with the family of the
\* pipeline that ran and holds its records: the type given when it is
\* INVOICE or PACKING_LIST, no classification being made, and the
\* classifier's answer otherwise; it carries the path given, and its count
\* is the length of its record list.
C20_ResultDescribesRun ==
    dpc = "returned" =>
        /\ ~ d_outcome.raised
        /\ d_outcome.value.document_type = d_resolved.value.type
        /\ d_outcome.value.data = RecordsOf(d_outcome.value.document_type)
        /\ d_type \in {INVOICE, PACKING_LIST} =>
              d_outcome.value.document_type = d_type /\ ~ d_resolved.value.classified
        /\ d_type \notin {INVOICE, PACKING_LIST} =>
              /\ d_resolved.value.classified
              /\ d_outcome.value.document_type = FamilyOfCalled
        /\ d_outcome.value.file_path = Files[d_file].path
        /\ d_outcome.value.count = Len(d_outcome.value.data)

\* "invoice/doc1.pdf" under AUTO: classified by its first page and parsed
\* as a packing list of two records
C20_Witness ==
    /\ dpc = "returned"
    /\ d_type = AUTO
    /\ d_file = 4
    /\ d_resolved.value.classified
    /\ d_outcome.value.document_type = "packing_list"
    /\ d_outcome.value.count = 2
    /\ Len(d_outcome.value.data) = 2

\* ------------------------------------------------------------------------
\* the tables given have cell c of row r of table t, counted from 1
HasCell(t, r, c) ==
    /\ Len(m_tables) >= t
    /\ Len(m_tables[t]) >= r
    /\ Len(m_tables[t][r]) >= c

\* the four cells the header fields are read from are all there
HeaderCellsPresent ==
    /\ Len(m_tables) >= 3
    /\ HasCell(1, 3, 2) /\ HasCell(2, 4, 2) /\ HasCell(3, 1, 2) /\ HasCell(3, 1, 4)

\* the shipment number and the total quantity written in the text given
ShipmentWritten ==
    IF Occurs(LineShip7, m_text) THEN <<"7", "0", "0", "1">> ELSE None

TotalWritten ==
    IF Occurs(LineTotal5, m_text) THEN <<"1", "0", "5", "0">> ELSE None

\* C21: for a page with fewer than three tables, or with one of the four
\* cell positions missing (a table, a row or a cell that is not there),
\* _extract_metadata returns the EDI reference, the delivery reference, the
\* invoice number and the invoice date all unset, and returns rather than
\* raises; the shipment number and the total quantity are those of the
\* page text whatever the tables are.
C21_MissingCellUnsetsHeaderFields ==
    mpc = "return" =>
        /\ ~ HeaderCellsPresent =>
              /\ m_out.edi_number = None
              /\ m_out.delivery_number = None
              /\ m_out.invoice_number = None
              /\ m_out.invoice_date = None
        /\ m_out.shipment_number = ShipmentWritten
        /\ m_out.total_quantity = TotalWritten

\* four tables whose invoice row lacks only the date cell, on a page that
\* names a shipment and a total: the four fields are unset, the two others
\* set
C21_Witness ==
    /\ mpc = "return"
    /\ Len(m_tables) = 4
    /\ HasCell(1, 3, 2) /\ HasCell(2, 4, 2) /\ HasCell(3, 1, 3) /\ ~ HasCell(3, 1, 4)
    /\ m_out.edi_number = None /\ m_out.invoice_number = None
    /\ m_out.shipment_number = <<"7", "0", "0", "1">>
    /\ m_out.total_quantity = <<"1", "0", "5", "0">>

\* ------------------------------------------------------------------------
\* the file of the call does not exist, does not open, or has a page whose
\* reading raises
SourceFails ==
    \/ ~ Files[d_file].exists
    \/ ~ Files[d_file].opens
    \/ \E n \in DOMAIN Files[d_file].pages :
          DocPages[Files[d_file].pages[n]].text = Unreadable

\* a raise carries no record list
RaisedOnly(outcome) == outcome.raised /\ "value" \notin DOMAIN outcome

C22_Step ==
    SourceFails =>
        /\ dpc = "call" =>
              \/ dpc' = "resolved"
              \/ dpc' = "raised" /\ RaisedOnly(d_outcome')
        /\ dpc = "resolved" => dpc' = "raised" /\ RaisedOnly(d_outcome')

\* C22: when the source does not exist, cannot be opened, or raises while
\* one of its pages is read, parse_document raises to the caller: the call
\* never returns, and what it raises carries no record list, not even the
\* records of the pages before the failure.
C22_SourceFailureRaises == [][C22_Step]_vars

\* "late.pdf" parsed as an invoice: its first page is a page of invoice N1,
\* its second page raises, and the call has raised
C22_Witness ==
    /\ d_file = 13
    /\ d_type = INVOICE
    /\ DocScan[Files[d_file].pages[1]].inv.metadata.invoice_number = <<"N", "1">>
    /\ dpc = "raised"
    /\ d_outcome.kind = "Exception"
    /\ d_outcome.error.text = "PDF reading error: "

\* ------------------------------------------------------------------------
\* date is written dd<sep>mm<sep>yyyy
WrittenDayFirst(date, sep) ==
    /\ date # None
    /\ Len(date) = 10
    /\ date[3] = sep /\ date[6] = sep
    /\ \A k \in {1, 2, 4, 5, 7, 8, 9, 10} : date[k] \in Digit

\* yyyy-mm-dd of a date written day first
IsoOf(date) ==
    <<date[7], date[8], date[9], date[10], "-", date[4], date[5], "-", date[1], date[2]>>

\* the number of parts sep splits date into
PartsOn(date, sep) == Cardinality({k \in DOMAIN date : date[k] = sep}) + 1

\* the dates of the row exported, each with the cell written for it and the
\* separator its sheet splits on
DateCells ==
    IF e_sheet = INVOICE
    THEN {[given |-> e_date, cell |-> e_row.InvoiceDate, sep |-> "."]}
    ELSE {[given |-> e_date, cell |-> e_row.MfgDate, sep |-> "-"],
          [given |-> e_date2, cell |-> e_row.ExpDate, sep |-> "-"]}

\* C23 as stated: on both sheets a date written dd.mm.yyyy or dd-mm-yyyy
\* is exported as yyyy-mm-dd, and a string with another separator, or one
\* that does not split into three parts, is exported unchanged.
C23_AsStated ==
    epc = "return" =>
        \A d \in DateCells :
            /\ (WrittenDayFirst(d.given, ".") \/ WrittenDayFirst(d.given, "-")) =>
                  d.cell = IsoOf(d.given)
            /\ (/\ d.given # None
                /\ \/ "." \notin Range(d.given) /\ "-" \notin Range(d.given)
                   \/ PartsOn(d.given, ".") # 3 /\ PartsOn(d.given, "-") # 3) =>
                  d.cell = d.given

\* C23: the invoice sheet exports an invoice date written dd.mm.yyyy as
\* yyyy-mm-dd, the packing-list sheet a manufacture or expiry date written
\* dd-mm-yyyy; a date that does not contain its sheet's separator (a dot
\* for invoices, a hyphen for packing lists), that does not split on it
\* into exactly three parts, or that is unset, is exported unchanged.
C23_DateReformatPerSheet ==
    epc = "return" =>
        \A d \in DateCells :
            /\ WrittenDayFirst(d.given, d.sep) => d.cell = IsoOf(d.given)
            /\ (d.given = None \/ d.sep \notin Range(d.given)
                \/ PartsOn(d.given, d.sep) # 3) =>
                  d.cell = d.given

\* "05.11.2024" on the invoice sheet is exported as "2024-11-05"
C23_Witness ==
    /\ epc = "return"
    /\ e_sheet = INVOICE
    /\ e_date = <<"0", "5", ".", "1", "1", ".", "2", "0", "2", "4">>
    /\ e_row.InvoiceDate = <<"2", "0", "2", "4", "-", "1", "1", "-", "0", "5">>

\* ------------------------------------------------------------------------
\* the base reference written for the code of the row exported
BaseReference == IF e_sheet = INVOICE THEN e_row.Ref00 ELSE e_row.REF_00

\* C24: the base reference of a code of two characters or more is the code
\* with its last two characters replaced by "00": it has the length of the
\* code and the same characters before the last two; a code of fewer than
\* two characters, and an unset code, are returned unchanged.
C24_BaseReferenceZeroesLastTwo ==
    epc = "return" =>
        IF e_code # None /\ Len(e_code) >= 2
        THEN /\ Len(BaseReference) = Len(e_code)
             /\ \A k \in 1..(Len(e_code) - 2) : BaseReference[k] = e_code[k]
             /\ BaseReference[Len(e_code) - 1] = "0"
             /\ BaseReference[Len(e_code)] = "0"
        ELSE BaseReference = e_code

\* the SKU "ABC1234" on the packing-list sheet gives "ABC1200"
C24_Witness ==
    /\ epc = "return"
    /\ e_sheet = PACKING_LIST
    /\ e_code = <<"A", "B", "C", "1", "2", "3", "4">>
    /\ e_row.REF_00 = <<"A", "B", "C", "1", "2", "0", "0">>

\* ------------------------------------------------------------------------
\* page n of the pages read is a marker page
MarkerAt(n) == PageScan[pages[n]].is_terms

\* page n of the pages read yields a non-empty invoice number
NumberAt(n) ==
    /\ PageScan[pages[n]].has_text
    /\ ~ PageScan[pages[n]].is_terms
    /\ Truthy(PageScan[pages[n]].metadata.invoice_number)

\* from..to is a maximal marker-free range of the pages read that has
\* ended: at the marker page that follows it, or at the end of the input
EndedRange(from, to) ==
    /\ from <= to
    /\ \A n \in from..to : ~ MarkerAt(n)
    /\ from = 1 \/ MarkerAt(from - 1)
    /\ IF to = Len(pages) THEN pc = "done" ELSE MarkerAt(to + 1)

\* C25: when some page of a maximal marker-free page range yields a
\* non-empty invoice number, the record of that range is emitted when the
\* range ends, whether or not a later page of the range yields none.
C25_OpenedInvoiceIsEmitted ==
    \A from \in DOMAIN pages : \A to \in DOMAIN pages :
        (EndedRange(from, to) /\ \E n \in from..to : NumberAt(n)) =>
            <<from, to>> \in Range(ranges)

\* ------------------------------------------------------------------------
\* for each page of PdfPages, the items of its lines that start with 13
\* digits and match both stages, in the order of the lines
FullMatch(l) == ean_line(l) /\ item_step1(l).matched /\ item_step2(l).matched

FullMatchItems ==
    [i \in DOMAIN PdfPages |->
        IF ~ Truthy(PdfPages[i].text) THEN <<>>
        ELSE Bind(LAMBDA full : [n \in DOMAIN full |->
                                    InvoiceItemOf(item_step1(full[n]), item_step2(full[n]))],
                  SelectSeq(split(PdfPages[i].text), FullMatch))] \o <<>>

\* the page read last, and whether parse_pdf extracted from it
LastPage == pages[Len(pages)]

LastPageExtracted ==
    /\ pages # <<>>
    /\ PageScan[LastPage].has_text
    /\ ~ PageScan[LastPage].is_terms

\* the in-progress record holds, under the EAN of line n of the full-match
\* lines of the page read last, the item of the last such line with that EAN
HeldAfterPage(n) ==
    LET full == FullMatchItems[LastPage]
        last == CHOOSE m \in DOMAIN full :
                    /\ full[m].ean_number = full[n].ean_number
                    /\ \A j \in DOMAIN full :
                          full[j].ean_number = full[n].ean_number => j <= m
    IN  /\ full[n].ean_number \in DictKeys(invoice.items)
        /\ DictGet(invoice.items, full[n].ean_number) = full[last]

\* C26 as stated: after a page with text and no marker, every line of it
\* that starts with 13 digits and matches both stages is in the item map of
\* the in-progress record, whatever the number of tables of the page.
C26_AsStated ==
    LastPageExtracted =>
        \A n \in DOMAIN FullMatchItems[LastPage] : HeldAfterPage(n)

\* C26 (amended): after a page with text, no marker and at least four
\* tables, every line of it that starts with 13 digits and matches both
\* stages is in the item map of the in-progress record under its stage-1
\* EAN, as the item of the last such line of the page with that EAN.
C26_FullMatchLinesAreHeld ==
    (LastPageExtracted /\ Len(PdfPages[LastPage].tables) >= 4) =>
        \A n \in DOMAIN FullMatchItems[LastPage] : HeldAfterPage(n)

\* a second page of the record with three full-match lines, two of them
\* with one EAN: the record holds the later of the two and the third, next
\* to an item of the page before
C26_Witness ==
    /\ Len(pages) = 2
    /\ LastPageExtracted
    /\ ~ PageScan[pages[1]].is_terms
    /\ Len(PdfPages[LastPage].tables) >= 4
    /\ LET full == FullMatchItems[LastPage]
       IN  /\ Len(full) = 3
           /\ full[1].ean_number = full[3].ean_number
           /\ full[1] # full[3]
           /\ DictGet(invoice.items, full[3].ean_number) = full[3]
           /\ full[2].ean_number \in DictKeys(invoice.items)
    /\ Len(invoice.items) > 2

\* ------------------------------------------------------------------------
\* the record parse_pdf accumulates over the pages from..to of the pages
\* read, starting from a fresh record
RECURSIVE RecordOver(_, _)
RecordOver(from, to) ==
    IF to < from THEN InvoiceData
    ELSE parse_page([invoice |-> RecordOver(from, to - 1), invoice_data |-> <<>>],
                    PageAt(to)).invoice

MarkerPages == {q \in DOMAIN pages : IsMarker(q)}

\* C27: every emitted record is the record of one maximal marker-free page
\* range that has ended; the ranges of the records are distinct and follow
\* one another in the order of the output list, so no range yields two
\* records and no record is emitted twice; the number of records is at most
\* the number of marker pages plus one.
C27_AtMostOneRecordPerRange ==
    /\ Len(ranges) = Len(invoice_data)
    /\ \A k \in DOMAIN invoice_data :
          /\ ranges[k][1] <= ranges[k][2]
          /\ ClosedRange(ranges[k][1], ranges[k][2])
          /\ invoice_data[k] = RecordOver(ranges[k][1], ranges[k][2])
          /\ \A j \in 1..(k - 1) : ranges[j][2] < ranges[k][1]
    /\ Len(invoice_data) <= Cardinality(MarkerPages) + 1

\* four pages with one marker page: a record of the two pages before it
\* and a record of the page after it, two records for one marker
C27_Witness ==
    /\ pc = "done" /\ Len(pages) = 4
    /\ MarkerPages = {3}
    /\ ranges = << <<1, 2>>, <<4, 4>> >>
    /\ Len(invoice_data) = 2
    /\ invoice_data[1] # invoice_data[2]
    /\ HasNumber(1) /\ HasNumber(2) /\ HasNumber(4)

\* ------------------------------------------------------------------------
\* the items the extractor created, before the grouping pass touched them
CreatedItems == [i \in DOMAIN matches |-> _create_item_from_match(matches[i])]

EanBatch(item) == <<item.ean, item.batch>>

\* the extractor's items: an EAN of 13 digits, a batch without blanks
FromExtractor(item) ==
    /\ Len(item.ean) = 13
    /\ \A k \in DOMAIN item.ean : item.ean[k] \in Digit
    /\ item.batch # <<>>
    /\ \A k \in DOMAIN item.batch : item.batch[k] \notin {" ", "\n", "\t"}

\* C28: for the extractor's items the key EAN, underscore, batch is the same
\* for two items only if their EANs are equal and their batches are equal,
\* and the grouping pass merges no others: its result has one item for each
\* (EAN, batch) pair of the input, the quantities of the other pairs apart.
C28_KeyIdentifiesEanAndBatch ==
    gpc \in {"grouped", "regrouped"} =>
        LET created == CreatedItems
            keyed   == [i \in DOMAIN created |-> GroupKey(created[i])] \o <<>>
            pairs   == {EanBatch(created[i]) : i \in DOMAIN created}
        IN  /\ \A i \in DOMAIN created : FromExtractor(created[i])
            /\ \A i \in DOMAIN created : \A j \in DOMAIN created :
                  keyed[i] = keyed[j] => EanBatch(created[i]) = EanBatch(created[j])
            /\ {EanBatch(grouped_items[n]) : n \in DOMAIN grouped_items} = pairs
            /\ Len(grouped_items) = Cardinality(pairs)

\* four items: two of one EAN and batch, one of the same EAN and another
\* batch, one of another EAN and a batch with an underscore: three groups
C28_Witness ==
    /\ gpc = "grouped"
    /\ Len(matches) = 4
    /\ Len(grouped_items) = 3
    /\ EanBatch(CreatedItems[1]) = EanBatch(CreatedItems[2])
    /\ CreatedItems[3].ean = CreatedItems[1].ean
    /\ CreatedItems[3].batch # CreatedItems[1].batch
    /\ CreatedItems[4].ean # CreatedItems[1].ean
    /\ "_" \in Range(CreatedItems[4].batch)

\* ------------------------------------------------------------------------
\* page.extract_text() gave no text: None or the empty string
NoText(text) == text = None \/ text = <<>>

\* a step of the invoice loop that read a page without text
ReadsBlankInvoicePage ==
    ReadsPage /\ NoText(PdfPages[pages'[Len(pages')]].text)

\* a step of the packing-list loop that read a page without text
ReadsBlankPackingPage ==
    /\ Len(pl_pages') = Len(pl_pages) + 1
    /\ NoText(PackingPages[pl_pages'[Len(pl_pages')]])

C29_Step ==
    /\ ReadsBlankInvoicePage =>
          /\ invoice' = invoice
          /\ invoice_data' = invoice_data
          /\ ranges' = ranges /\ start' = start
          /\ pc' = "pages"
    /\ ReadsBlankPackingPage =>
          /\ pl_items' = pl_items
          /\ pl_from' = pl_from
          /\ pl_ran'[Len(pl_ran')] = <<>>
          /\ pl_out' = pl_out
          /\ plpc' = "pages"

\* C29: a page whose text is empty or absent is skipped.  In the invoice
\* loop it leaves the in-progress record, metadata and items, and the output
\* list as they were, and neither closes nor resets the record; in the
\* packing-list loop it adds no item and no pattern runs on it; in both the
\* loop goes on to the next page.
C29_BlankPageIsSkipped == [][C29_Step]_vars

\* a page with an absent text and four tables of another invoice, between
\* two pages of invoice N1: the record holds the items of both pages, and
\* nothing was emitted
C29_Witness ==
    /\ pc = "pages"
    /\ Len(pages) = 3
    /\ HasNumber(1) /\ HasNumber(3)
    /\ PdfPages[pages[2]].text = None
    /\ PdfPages[pages[2]].tables # <<>>
    /\ invoice_data = <<>>
    /\ PageAt(1).items # <<>>
    /\ \A e \in Range(PageAt(1).items) :
          e.k \in DictKeys(invoice.items) \/ e.k \in DictKeys(PageAt(3).items)
    /\ \E e \in Range(PageAt(1).items) : e \in Range(invoice.items)
    /\ \A e \in Range(PageAt(3).items) : e \in Range(invoice.items)

\* ------------------------------------------------------------------------
\* the outcome of the call when it is the only call of a process
CalledAlone(call) ==
    IF call.type = INVOICE
    THEN parse_invoice_pdf(call.path)
    ELSE parse_packing_list_pdf(call.path)

\* C30: the outcome of a call does not depend on the calls before it: it is
\* the outcome the call has as the first call of a process, whether or not
\* debug is enabled in it or in an earlier call, after calls on other
\* documents and after calls that raised; two calls on the same document
\* with the same type have equal outcomes.  The in-progress record and the
\* item list the call before ended with take no part in it.
C30_CallsShareNoState ==
    /\ Len(s_results) = Len(s_calls)
    /\ \A k \in DOMAIN s_calls :
          /\ s_results[k] = CalledAlone(s_calls[k])
          /\ s_results[k] = ParserCall(FreshProcess, s_calls[k]).outcome
          /\ \A j \in 1..(k - 1) :
                (s_calls[j].path = s_calls[k].path /\ s_calls[j].type = s_calls[k].type)
                   => s_results[j] = s_results[k]

\* an invoice of two records is parsed, then a call with debug enabled
\* raises on the second page of another document, with a record in progress,
\* then the first invoice is parsed again, without debug: the same two
\* records, and the logger still as the debug call left it
C30_Witness ==
    /\ Len(s_calls) = 3
    /\ s_calls[1] = [path |-> Files[1].path, type |-> INVOICE, debug |-> FALSE]
    /\ s_calls[2] = [path |-> Files[13].path, type |-> INVOICE, debug |-> TRUE]
    /\ s_calls[3] = s_calls[1]
    /\ ~ s_results[1].raised /\ Len(s_results[1].value) = 2
    /\ s_results[2].raised
    /\ s_results[3] = s_results[1]
    /\ s_process.invoice_logger = [handlers |-> 1, level |-> "DEBUG"]
    /\ s_process.invoice.items # <<>>

====
